---- MODULE Spec2Model ----
(***************************************************************************)
(* Airkeeper update cycle: the phased PSP handler (initializeState,        *)
(* executeApiCalls, initializeProviders, submitTransactions), the RRP      *)
(* handler and initializeProvider.                                         *)
(*                                                                         *)
(* Conventions.  A JavaScript string is a TLA+ string.  A value that may   *)
(* be null or undefined is a sequence: << >> is null, <<v>> is v.  A       *)
(* keccak256 digest is the string built from the hashed fields, so two     *)
(* digests are equal exactly when the hashed fields are.                   *)
(***************************************************************************)
EXTENDS Integers, Sequences, FiniteSets, TLC

\* ------------------------------------------------------------------ bounds

\* Longest triggers.protoPsp list of a drawn config.
MaxTriggers == 2

\* Longest triggers.rrpBeaconServerKeeperJobs list of a drawn config.
MaxJobs == 2

\* ----------------------------------------------------------------- helpers

SeqsUpTo(S, n) == UNION { [1..k -> S] : k \in 0..n }

Range(seq) == { seq[i] : i \in 1..Len(seq) }

RECURSIVE FlattenSeq(_)
FlattenSeq(seqs) ==
  IF seqs = << >> THEN << >> ELSE Head(seqs) \o FlattenSeq(Tail(seqs))

\* The keys of a lodash groupBy result, as Object.keys lists them: each key
\* once, in the order of its first occurrence.
RECURSIVE KeysInOrder(_)
KeysInOrder(keys) ==
  IF keys = << >> THEN << >>
  ELSE LET rest == KeysInOrder(SelectSeq(Tail(keys), LAMBDA k : k # Head(keys)))
       IN  <<Head(keys)>> \o rest

\* ------------------------------------------------------------------ hashes

\* keccak256 over an encoding of the fields: injective on field lists.
RECURSIVE JoinFields(_)
JoinFields(fields) ==
  IF fields = << >> THEN ""
  ELSE IF Len(fields) = 1 THEN Head(fields)
  ELSE Head(fields) \o "," \o JoinFields(Tail(fields))

Keccak256(fields) == "0x[" \o JoinFields(fields) \o "]"

ExpectedEndpointId(endpoint) ==
  Keccak256(<<endpoint.oisTitle, endpoint.endpointName>>)

ExpectedTemplateId(template) ==
  Keccak256(<<template.endpointId, template.templateParameters>>)

ExpectedSubscriptionId(s) ==
  Keccak256(<<s.chainId, s.airnodeAddress, s.templateId, s.parameters,
              s.conditions, s.relayer, s.sponsor, s.requester,
              s.fulfillFunctionId>>)

\* ------------------------------------------------------- the drawn configs

AirnodeAddress == "airnode"

ChainA == "31337"
ChainB == "1"

\* config.endpoints: endpointId -> endpoint.  The second entry is stored
\* under an id that is not the hash of its fields.
EndpointUsd == [oisTitle |-> "Currency Converter API", endpointName |-> "convertToUSD"]
EndpointEur == [oisTitle |-> "Currency Converter API", endpointName |-> "convertToEUR"]
EndpointIdUsd == ExpectedEndpointId(EndpointUsd)
EndpointIdWrong == Keccak256(<<"Currency Converter API", "convertToJPY">>)
EndpointIdAbsent == Keccak256(<<"Currency Converter API", "convertToGBP">>)

ConfigEndpoints == (EndpointIdUsd :> EndpointUsd) @@ (EndpointIdWrong :> EndpointEur)

\* config.templates: templateId -> template.
TemplateEth == [endpointId |-> EndpointIdUsd, templateParameters |-> "from=ETH"]
TemplateBtc == [endpointId |-> EndpointIdUsd, templateParameters |-> "from=BTC"]
TemplateNoEndpoint == [endpointId |-> EndpointIdAbsent, templateParameters |-> "from=ETH"]
TemplateWrongEndpoint == [endpointId |-> EndpointIdWrong, templateParameters |-> "from=ETH"]
TemplateLtc == [endpointId |-> EndpointIdUsd, templateParameters |-> "from=LTC"]
TemplateIdEth == ExpectedTemplateId(TemplateEth)
TemplateIdBtc == ExpectedTemplateId(TemplateBtc)
TemplateIdNoEndpoint == ExpectedTemplateId(TemplateNoEndpoint)
TemplateIdWrongEndpoint == ExpectedTemplateId(TemplateWrongEndpoint)
TemplateIdWrong == Keccak256(<<EndpointIdUsd, "from=XRP">>)
TemplateIdAbsent == Keccak256(<<EndpointIdUsd, "from=DOT">>)

ConfigTemplates ==
  (TemplateIdEth :> TemplateEth) @@ (TemplateIdBtc :> TemplateBtc)
  @@ (TemplateIdNoEndpoint :> TemplateNoEndpoint)
  @@ (TemplateIdWrongEndpoint :> TemplateWrongEndpoint)
  @@ (TemplateIdWrong :> TemplateLtc)

SponsorX == "sponsorX"
SponsorY == "sponsorY"

MakeSubscription(chainId, templateId, sponsor) ==
  [chainId |-> chainId, airnodeAddress |-> AirnodeAddress, templateId |-> templateId,
   parameters |-> "0x", conditions |-> "conditionPspBeaconUpdate(10%)",
   relayer |-> AirnodeAddress, sponsor |-> sponsor, requester |-> "DapiServer",
   fulfillFunctionId |-> "0x206b48f4"]

\* The subscriptions whose declared id is the hash of their fields.
ValidSubscriptions ==
  { MakeSubscription(ChainA, TemplateIdEth, SponsorX),
    MakeSubscription(ChainA, TemplateIdBtc, SponsorX),
    MakeSubscription(ChainA, TemplateIdEth, SponsorY),
    MakeSubscription(ChainB, TemplateIdBtc, SponsorY),
    MakeSubscription(ChainA, TemplateIdAbsent, SponsorX),
    MakeSubscription(ChainA, TemplateIdWrong, SponsorX),
    MakeSubscription(ChainA, TemplateIdNoEndpoint, SponsorX),
    MakeSubscription(ChainA, TemplateIdWrongEndpoint, SponsorX) }

\* A subscription declared under the id of another fulfillFunctionId.
MismatchedSubscription == MakeSubscription(ChainA, TemplateIdBtc, SponsorY)
MismatchedSubscriptionId ==
  ExpectedSubscriptionId([MismatchedSubscription EXCEPT !.fulfillFunctionId = "0x206b48fa"])

\* An id listed in no config.subscriptions entry.
AbsentSubscriptionId ==
  ExpectedSubscriptionId(MakeSubscription(ChainB, TemplateIdEth, SponsorX))

\* config.subscriptions: subscriptionId -> subscription.
ConfigSubscriptions ==
  [id \in { ExpectedSubscriptionId(s) : s \in ValidSubscriptions } |->
     CHOOSE s \in ValidSubscriptions : ExpectedSubscriptionId(s) = id]
  @@ (MismatchedSubscriptionId :> MismatchedSubscription)

TriggerIds == DOMAIN ConfigSubscriptions \cup {AbsentSubscriptionId}

\* config.chains, with each chain's providers in Object.entries order.
ConfigChains ==
  <<[id |-> ChainA, type |-> "evm", providers |-> <<"local", "backup">>,
     options |-> [txType |-> "eip1559", baseFeeMultiplier |-> 2,
                  priorityFee |-> [value |-> 3, unit |-> "kwei"]]],
    [id |-> ChainB, type |-> "other", providers |-> <<"hub">>,
     options |-> [txType |-> "legacy", baseFeeMultiplier |-> 2,
                  priorityFee |-> [value |-> 3, unit |-> "kwei"]]]>>

\* The merged config of a cycle whose triggers.protoPsp is `triggers`.
ConfigOf(triggers) ==
  [triggers |-> [protoPsp |-> triggers], subscriptions |-> ConfigSubscriptions,
   templates |-> ConfigTemplates, endpoints |-> ConfigEndpoints,
   chains |-> ConfigChains]

\* The trigger lists a cycle is drawn from: any list over the config's ids.
TriggerLists == SeqsUpTo(TriggerIds, MaxTriggers)

\* The lists drawn where executeApiCalls' responses are drawn too: over the
\* subscriptions of the two verified templates, a subscription whose
\* template names a mismatched endpoint, and the mismatched id.
ResponseTriggerIds ==
  { ExpectedSubscriptionId(s) :
      s \in { t \in ValidSubscriptions :
                t.templateId \in {TemplateIdEth, TemplateIdBtc, TemplateIdWrongEndpoint} } }
  \cup {MismatchedSubscriptionId}

ResponseTriggerLists == SeqsUpTo(ResponseTriggerIds, MaxTriggers)

\* ---------------------------------------------------------- initializeState

\* { ...subscription, id: subscriptionId }
WithId(s, subscriptionId) ==
  [chainId |-> s.chainId, airnodeAddress |-> s.airnodeAddress,
   templateId |-> s.templateId, parameters |-> s.parameters,
   conditions |-> s.conditions, relayer |-> s.relayer, sponsor |-> s.sponsor,
   requester |-> s.requester, fulfillFunctionId |-> s.fulfillFunctionId,
   id |-> subscriptionId]

\* A reduce that stops at the first unknown or mismatched id.
RECURSIVE EnabledSubscriptionsUntilInvalid(_, _)
EnabledSubscriptionsUntilInvalid(cfg, ids) ==
  IF ids = << >> THEN << >>
  ELSE LET subscriptionId == Head(ids) IN
    IF subscriptionId \notin DOMAIN cfg.subscriptions THEN << >>
    ELSE IF subscriptionId # ExpectedSubscriptionId(cfg.subscriptions[subscriptionId])
         THEN << >>
    ELSE <<WithId(cfg.subscriptions[subscriptionId], subscriptionId)>>
         \o EnabledSubscriptionsUntilInvalid(cfg, Tail(ids))

\* The reduce over triggers.protoPsp: unknown and mismatched ids are skipped.
RECURSIVE EnabledSubscriptions(_, _)
EnabledSubscriptions(cfg, ids) ==
  IF ids = << >> THEN << >>
  ELSE LET subscriptionId == Head(ids)
           rest == EnabledSubscriptions(cfg, Tail(ids))
       IN  IF subscriptionId \notin DOMAIN cfg.subscriptions THEN rest
           ELSE IF subscriptionId # ExpectedSubscriptionId(cfg.subscriptions[subscriptionId])
                THEN rest
           ELSE <<WithId(cfg.subscriptions[subscriptionId], subscriptionId)>> \o rest

\* A group built without verifying the endpoint's id.
GroupOfTemplateAnyEndpoint(cfg, enabled, templateId) ==
  IF templateId \notin DOMAIN cfg.templates THEN << >>
  ELSE LET template == cfg.templates[templateId] IN
    IF ExpectedTemplateId(template) # templateId THEN << >>
    ELSE IF template.endpointId \notin DOMAIN cfg.endpoints THEN << >>
    ELSE LET endpoint == cfg.endpoints[template.endpointId] IN
      <<[subscriptions |->
           SelectSeq(enabled, LAMBDA s : s.templateId = templateId),
         template |-> [endpointId |-> template.endpointId,
                       templateParameters |-> template.templateParameters,
                       id |-> templateId],
         endpoint |-> [oisTitle |-> endpoint.oisTitle,
                       endpointName |-> endpoint.endpointName,
                       id |-> template.endpointId]]>>

\* One group of the reduce over Object.keys(enabledSubscriptionsByTemplateId):
\* << >> when the template or the endpoint is unknown or mismatched.
GroupOfTemplate(cfg, enabled, templateId) ==
  IF templateId \notin DOMAIN cfg.templates THEN << >>
  ELSE LET template == cfg.templates[templateId] IN
    IF ExpectedTemplateId(template) # templateId THEN << >>
    ELSE IF template.endpointId \notin DOMAIN cfg.endpoints THEN << >>
    ELSE LET endpoint == cfg.endpoints[template.endpointId] IN
      IF ExpectedEndpointId(endpoint) # template.endpointId THEN << >>
      ELSE <<[subscriptions |->
                SelectSeq(enabled, LAMBDA s : s.templateId = templateId),
              template |-> [endpointId |-> template.endpointId,
                            templateParameters |-> template.templateParameters,
                            id |-> templateId],
              endpoint |-> [oisTitle |-> endpoint.oisTitle,
                            endpointName |-> endpoint.endpointName,
                            id |-> template.endpointId]]>>

\* A grouping that makes one group for every enabled subscription.
InitializeStateGroupsPerSubscription(cfg) ==
  LET enabled == EnabledSubscriptions(cfg, cfg.triggers.protoPsp)
  IN  FlattenSeq([i \in 1..Len(enabled) |->
                    GroupOfTemplate(cfg, enabled, enabled[i].templateId)])

InitializeStateGroups(cfg) ==
  LET enabled == EnabledSubscriptions(cfg, cfg.triggers.protoPsp)
      templateIds ==
        KeysInOrder([i \in 1..Len(enabled) |-> enabled[i].templateId])
  IN  FlattenSeq([i \in 1..Len(templateIds) |->
                    GroupOfTemplate(cfg, enabled, templateIds[i])])


\* ---------------------------------------------------------- executeApiCalls

\* Object.keys(template)[0] of the group's template, which initializeState
\* builds as { ...template, id: templateId }: the name of its first property.
TemplateKeys == <<"endpointId", "templateParameters", "id">>

FirstKeyOfTemplate(template) == Head(TemplateKeys)

\* subscriptions.find((s) => s.templateId === Object.keys(template)[0]):
\* << >> when no subscription of the group matches.
FindSubscriptionOfTemplate(group) ==
  LET found == SelectSeq(group.subscriptions,
                         LAMBDA s : s.templateId = FirstKeyOfTemplate(group.template))
  IN  IF found = << >> THEN << >> ELSE <<Head(found)>>

\* What the HTTP adapter can answer for one template: it throws or times
\* out ("error"), answers without success (callApi returns a null value) or
\* answers with the template's value.
AdapterValue(template) == IF template.templateParameters = "from=ETH" THEN 723 ELSE 41091

AdapterOutcomes == {"error", "null", "value"}

\* One attempt of the function handed to go(): reading .airnodeAddress of an
\* undefined find() result throws before callApi is reached.
ApiAttempt(group, outcome) ==
  IF FindSubscriptionOfTemplate(group) = << >> THEN [threw |-> TRUE]
  ELSE IF outcome = "error" THEN [threw |-> TRUE]
  ELSE [threw |-> FALSE,
        data |-> [templateId |-> group.template.id,
                  apiValue |-> IF outcome = "null" THEN << >>
                               ELSE <<AdapterValue(group.template)>>]]

\* go(fn, { retries: 1 }): the attempts a call may make.
ApiMaxAttempts == 2

\* The responses executeApiCalls can hold once Promise.all has resolved.
FailedResponse == [success |-> FALSE]

SuccessResponse(data) == [success |-> TRUE, data |-> data]

\* A reduce that gives up at the first failed call.
RECURSIVE ReduceApiValuesUntilFailure(_, _, _)
ReduceApiValuesUntilFailure(groups, responses, acc) ==
  IF groups = << >> THEN acc
  ELSE IF ~Head(responses).success THEN acc
  ELSE LET logsData == Head(responses)
           subscriptions == Head(groups).subscriptions
           ids == { subscriptions[i].id : i \in 1..Len(subscriptions) }
           next ==
             IF logsData.data.apiValue = << >> THEN acc
             ELSE [id \in DOMAIN acc \cup ids |->
                     IF id \in ids THEN logsData.data.apiValue[1] ELSE acc[id]]
       IN  ReduceApiValuesUntilFailure(Tail(groups), Tail(responses), next)

\* The reduce over the responses: a failed call and a null value add nothing,
\* a value is stored under the id of every subscription of the group.
RECURSIVE ReduceApiValues(_, _, _)
ReduceApiValues(groups, responses, acc) ==
  IF groups = << >> THEN acc
  ELSE LET logsData == Head(responses)
           subscriptions == Head(groups).subscriptions
           ids == { subscriptions[i].id : i \in 1..Len(subscriptions) }
           next ==
             IF ~logsData.success THEN acc
             ELSE IF logsData.data.apiValue = << >> THEN acc
             ELSE [id \in DOMAIN acc \cup ids |->
                     IF id \in ids THEN logsData.data.apiValue[1] ELSE acc[id]]
       IN  ReduceApiValues(Tail(groups), Tail(responses), next)

EmptyMap == [id \in {} |-> 0]

\* ------------------------------------------------------- initializeProvider

\* ethers.utils.parseUnits(value, unit), in wei.
UnitDecimals(unit) ==
  CASE unit = "wei" -> 0 [] unit = "kwei" -> 3 [] unit = "mwei" -> 6 [] unit = "gwei" -> 9

RECURSIVE Pow10(_)
Pow10(n) == IF n = 0 THEN 1 ELSE 10 * Pow10(n - 1)

\* A conversion that takes every value as wei.
ParseUnitsAsWei(value, unit) == value

ParseUnits(value, unit) == value * Pow10(UnitDecimals(unit))

\* The gas target of a chain: for eip1559 from the latest block's
\* baseFeePerGas, for legacy from the provider's gas price.  << >> when the
\* query it needs fails.  `calls` are the provider methods invoked, in order.
GetGasPrice(options, rpc) ==
  IF options.txType = "eip1559"
  THEN [calls |-> <<"getBlock">>,
        gasTarget |->
          IF rpc.block = << >> THEN << >>
          ELSE LET maxPriorityFeePerGas ==
                     ParseUnits(options.priorityFee.value, options.priorityFee.unit)
               IN  <<[maxPriorityFeePerGas |-> maxPriorityFeePerGas,
                      maxFeePerGas |-> rpc.block[1].baseFeePerGas * options.baseFeeMultiplier
                                       + maxPriorityFeePerGas]>>]
  ELSE [calls |-> <<"getGasPrice">>,
        gasTarget |-> IF rpc.gasPrice = << >> THEN << >>
                      ELSE <<[gasPrice |-> rpc.gasPrice[1]]>>]

\* An initializer that asks for the gas target first and for the block
\* number only when it has one.
InitializeProviderGasFirst(chain, rpc) ==
  LET gas == GetGasPrice(chain.options, rpc) IN
    IF gas.gasTarget = << >>
    THEN [logs |-> <<[level |-> "ERROR", message |-> "Failed to fetch gas price"]>>,
          data |-> << >>,
          calls |-> gas.calls]
    ELSE IF rpc.blockNumber = << >>
    THEN [logs |-> <<[level |-> "INFO", message |-> "Gas target"],
                     [level |-> "ERROR", message |-> "Failed to fetch the blockNumber"]>>,
          data |-> << >>,
          calls |-> gas.calls \o <<"getBlockNumber">>]
    ELSE [logs |-> <<[level |-> "INFO", message |-> "Gas target"],
                     [level |-> "INFO", message |-> "Current block number"]>>,
          data |-> <<[currentBlock |-> rpc.blockNumber[1],
                      gasTarget |-> gas.gasTarget[1]]>>,
          calls |-> gas.calls \o <<"getBlockNumber">>]

\* An initializer that answers a state without a gas target when the gas
\* target cannot be fetched.
InitializeProviderWithoutGas(chain, rpc) ==
  IF rpc.blockNumber = << >>
  THEN [logs |-> <<[level |-> "ERROR", message |-> "Failed to fetch the blockNumber"]>>,
        data |-> << >>,
        calls |-> <<"getBlockNumber">>]
  ELSE LET gas == GetGasPrice(chain.options, rpc) IN
    [logs |-> <<[level |-> "INFO", message |-> "Current block number"],
                [level |-> "INFO", message |-> "Gas target"]>>,
     data |-> <<[currentBlock |-> rpc.blockNumber[1], gasTarget |-> gas.gasTarget]>>,
     calls |-> <<"getBlockNumber">> \o gas.calls]

\* initializeProvider(chain, providerUrl): [logs, data] and the provider
\* methods it invoked.  rpc holds what the provider answers: blockNumber,
\* block and gasPrice, each << >> when the call fails.
InitializeProvider(chain, rpc) ==
  IF rpc.blockNumber = << >>
  THEN [logs |-> <<[level |-> "ERROR", message |-> "Failed to fetch the blockNumber"]>>,
        data |-> << >>,
        calls |-> <<"getBlockNumber">>]
  ELSE LET gas == GetGasPrice(chain.options, rpc) IN
    IF gas.gasTarget = << >>
    THEN [logs |-> <<[level |-> "INFO", message |-> "Current block number"],
                     [level |-> "ERROR", message |-> "Failed to fetch gas price"]>>,
          data |-> << >>,
          calls |-> <<"getBlockNumber">> \o gas.calls]
    ELSE [logs |-> <<[level |-> "INFO", message |-> "Current block number"],
                     [level |-> "INFO", message |-> "Gas target"]>>,
          data |-> <<[currentBlock |-> rpc.blockNumber[1],
                      gasTarget |-> gas.gasTarget[1]]>>,
          calls |-> <<"getBlockNumber">> \o gas.calls]

\* ------------------------------------------------------ initializeProviders

\* evmChains.flatMap((chain) => Object.entries(chain.providers).map(...)):
\* one entry per provider of every chain of type evm, in config order.
EvmProviders(cfg) ==
  LET evmChains == SelectSeq(cfg.chains, LAMBDA chain : chain.type = "evm")
  IN  FlattenSeq([c \in 1..Len(evmChains) |->
                    [p \in 1..Len(evmChains[c].providers) |->
                       [chain |-> evmChains[c],
                        providerName |-> evmChains[c].providers[p]]]])

\* What a provider of a cycle can answer to initializeProvider's queries.
CycleRpcs ==
  { [blockNumber |-> b, block |-> k, gasPrice |-> << >>] :
    b \in {<< >>, <<100>>}, k \in {<< >>, <<[baseFeePerGas |-> 1000]>>} }

\* { airnodeWallet, chainId: chain.id, providerName, ...evmProviderState }
ProviderStateOf(entry, evmProviderState) ==
  [airnodeWallet |-> AirnodeAddress, chainId |-> entry.chain.id,
   providerName |-> entry.providerName,
   currentBlock |-> evmProviderState.currentBlock,
   gasTarget |-> evmProviderState.gasTarget]

\* A filter that gives up at the first null provider state.
RECURSIVE ProviderStatesUntilNull(_)
ProviderStatesUntilNull(inits) ==
  IF inits = << >> THEN << >>
  ELSE IF Head(inits).data = << >> THEN << >>
  ELSE Head(inits).data \o ProviderStatesUntilNull(Tail(inits))

\* providerStates.filter((ps) => !isNil(ps))
RECURSIVE ValidProviderStates(_)
ValidProviderStates(inits) ==
  IF inits = << >> THEN << >>
  ELSE Head(inits).data \o ValidProviderStates(Tail(inits))

\* ------------------------------------------------------- submitTransactions

\* groupedSubscriptions.flatMap((s) => s.subscriptions)
AllSubscriptions(groups) ==
  FlattenSeq([g \in 1..Len(groups) |-> groups[g].subscriptions])

\* A filter by API value alone.
ChainSubscriptionsOfAnyChain(groups, apiValues, chainId) ==
  SelectSeq(AllSubscriptions(groups), LAMBDA s : s.id \in DOMAIN apiValues)

\* A filter by chainId alone.
ChainSubscriptionsWithoutValue(groups, apiValues, chainId) ==
  SelectSeq(AllSubscriptions(groups), LAMBDA s : s.chainId = chainId)

\* The subscriptions of the provider's chain that have an API value.
ChainSubscriptions(groups, apiValues, chainId) ==
  SelectSeq(AllSubscriptions(groups),
            LAMBDA s : s.chainId = chainId /\ s.id \in DOMAIN apiValues)

\* { ...data.subscription, apiValue }, with the position of the subscription
\* in chainSubscriptions (the object it was copied from).
CheckedSubscription(s, apiValues, position) ==
  [id |-> s.id, chainId |-> s.chainId, templateId |-> s.templateId,
   sponsor |-> s.sponsor, relayer |-> s.relayer,
   airnodeAddress |-> s.airnodeAddress,
   apiValue |-> apiValues[s.id], entry |-> position]

\* A reduce that keeps every checked subscription, whatever isValid says.
RECURSIVE ValidSubscriptionsUnfiltered(_, _, _, _)
ValidSubscriptionsUnfiltered(subscriptions, isValid, apiValues, position) ==
  IF position > Len(subscriptions) THEN << >>
  ELSE <<CheckedSubscription(subscriptions[position], apiValues, position)>>
       \o ValidSubscriptionsUnfiltered(subscriptions, isValid, apiValues, position + 1)

\* The reduce of checkSubscriptionsConditions: the subscriptions whose
\* condition check answered true, in list order.
RECURSIVE ValidSubscriptionsFrom(_, _, _, _)
ValidSubscriptionsFrom(subscriptions, isValid, apiValues, position) ==
  IF position > Len(subscriptions) THEN << >>
  ELSE LET rest == ValidSubscriptionsFrom(subscriptions, isValid, apiValues, position + 1)
       IN  IF isValid[position]
           THEN <<CheckedSubscription(subscriptions[position], apiValues, position)>> \o rest
           ELSE rest

\* deriveSponsorWalletFromMnemonic(mnemonic, sponsor, protocolId).address
SponsorWalletAddress(sponsor, protocolId) ==
  [mnemonic |-> "airnode", sponsor |-> sponsor, protocolId |-> protocolId]

PspProtocolId == "2"

\* provider.getTransactionCount(address, currentBlock) of the chain.
TransactionCountAt(chainId, address) ==
  IF address = SponsorWalletAddress(SponsorX, PspProtocolId) THEN 5
  ELSE IF address = SponsorWalletAddress(SponsorX, "12345") THEN 7
  ELSE IF address = SponsorWalletAddress(SponsorY, "3") THEN 3
  ELSE 0

\* A nonce assignment that gives every subscription the fetched count.
AssignedNonceRepeated(transactionCount, idx) == transactionCount

\* The nonce of the subscription at index idx (from 0) of a sponsor's list.
AssignedNonce(transactionCount, idx) == transactionCount + idx

\* getSponsorWalletAndTransactionCount: the data of its result, << >> (null)
\* when the transaction count cannot be fetched.  fetched is what
\* getTransactionCount answered after its retries, << >> when it failed.
GetSponsorWalletAndTransactionCount(sponsor, fetched) ==
  IF fetched = << >> THEN << >>
  ELSE <<[sponsorWallet |-> SponsorWalletAddress(sponsor, PspProtocolId),
          transactionCount |-> fetched[1]]>>

\* One element of sponsorWalletsWithSubscriptions.
SponsorWalletWithSubscriptions(sponsor, subscriptions, data) ==
  [sponsor |-> sponsor,
   sponsorWallet |-> data.sponsorWallet,
   transactionCount |-> data.transactionCount,
   subscriptions |->
     [i \in 1..Len(subscriptions) |->
        [id |-> subscriptions[i].id, entry |-> subscriptions[i].entry,
         sponsor |-> subscriptions[i].sponsor,
         apiValue |-> subscriptions[i].apiValue,
         nonce |-> AssignedNonce(data.transactionCount, i - 1)]]]

\* A reduce that ends at the first sponsor whose wallet data is null.
RECURSIVE GroupBySponsorWalletUntilFailure(_, _, _)
GroupBySponsorWalletUntilFailure(sponsors, valid, fetched) ==
  IF sponsors = << >> THEN << >>
  ELSE LET sponsor == Head(sponsors)
           data == GetSponsorWalletAndTransactionCount(sponsor, fetched[sponsor])
       IN  IF data = << >> THEN << >>
           ELSE <<SponsorWalletWithSubscriptions(
                    sponsor, SelectSeq(valid, LAMBDA s : s.sponsor = sponsor),
                    data[1])>>
                \o GroupBySponsorWalletUntilFailure(Tail(sponsors), valid, fetched)

\* The reduce of groupSubscriptionsBySponsorWallet over the sponsors in
\* Object.keys order: a sponsor whose wallet data is null is left out.
RECURSIVE GroupBySponsorWallet(_, _, _)
GroupBySponsorWallet(sponsors, valid, fetched) ==
  IF sponsors = << >> THEN << >>
  ELSE LET sponsor == Head(sponsors)
           data == GetSponsorWalletAndTransactionCount(sponsor, fetched[sponsor])
           rest == GroupBySponsorWallet(Tail(sponsors), valid, fetched)
       IN  IF data = << >> THEN rest
           ELSE <<SponsorWalletWithSubscriptions(
                    sponsor, SelectSeq(valid, LAMBDA s : s.sponsor = sponsor),
                    data[1])>> \o rest

SponsorsOf(valid) == KeysInOrder([i \in 1..Len(valid) |-> valid[i].sponsor])

\* ------------------------------------------------------------- RRP handler

\* ethers.BigNumber, for the values a deviation goes through: the digits of
\* the number in base 10^4, least significant first, without leading zeros.
BigBase == 10000

RECURSIVE BigFromInt(_)
BigFromInt(n) ==
  IF n = 0 THEN << >> ELSE <<n % BigBase>> \o BigFromInt(n \div BigBase)

\* a.mul(m) for a number m below 10^5.
RECURSIVE BigMulCarry(_, _, _)
BigMulCarry(a, m, carry) ==
  IF a = << >> THEN BigFromInt(carry)
  ELSE LET v == Head(a) * m + carry
       IN  <<v % BigBase>> \o BigMulCarry(Tail(a), m, v \div BigBase)

BigMul(a, m) == IF m = 0 THEN << >> ELSE BigMulCarry(a, m, 0)

RECURSIVE BigTrim(_)
BigTrim(a) ==
  IF a = << >> THEN << >>
  ELSE IF a[Len(a)] = 0 THEN BigTrim(SubSeq(a, 1, Len(a) - 1))
  ELSE a

\* a.div(d) for a number d below 10^5: long division from the top digit.
RECURSIVE BigDivFrom(_, _, _, _)
BigDivFrom(a, d, k, remainder) ==
  IF k = 0 THEN << >>
  ELSE LET v == remainder * BigBase + a[k]
       IN  BigDivFrom(a, d, k - 1, v % d) \o <<v \div d>>

BigDiv(a, d) == BigTrim(BigDivFrom(a, d, Len(a), 0))

\* a.lte(b)
RECURSIVE BigLteFrom(_, _, _)
BigLteFrom(a, b, k) ==
  IF k = 0 THEN TRUE
  ELSE IF a[k] # b[k] THEN a[k] < b[k]
  ELSE BigLteFrom(a, b, k - 1)

BigLte(a, b) ==
  IF Len(a) # Len(b) THEN Len(a) < Len(b) ELSE BigLteFrom(a, b, Len(a))

\* ethers.utils.parseUnits('1', 16)
BasisPoints == <<0, 0, 0, 0, 1>>

\* abi.encode(templateParameters)
AbiEncode(templateParameters) == "abi(" \o templateParameters \o ")"

\* solidityKeccak256(['bytes32', 'bytes'], [templateId, encodedParameters])
BeaconIdOf(job) == Keccak256(<<job.templateId, AbiEncode(job.templateParameters)>>)

\* node.evm.templates.getExpectedTemplateId
ExpectedRrpTemplateId(airnodeAddress, endpointId, encodedParameters) ==
  Keccak256(<<airnodeAddress, endpointId, encodedParameters>>)

\* A job of triggers.rrpBeaconServerKeeperJobs.  chainIds is << >> when the
\* job does not define it.
MakeJob(templateParameters, chainIds, deviationPercentage, keeperSponsor) ==
  [chainIds |-> chainIds,
   templateId |-> ExpectedRrpTemplateId(AirnodeAddress, EndpointIdUsd,
                                        AbiEncode(templateParameters)),
   templateParameters |-> templateParameters, endpointId |-> EndpointIdUsd,
   deviationPercentage |-> deviationPercentage, keeperSponsor |-> keeperSponsor,
   requestSponsor |-> "requestSponsor"]

\* Jobs whose deviationPercentage is 10, 0, not a number, above 100, of
\* three decimal places, and negative on a job of another chain.
DeviationJobs ==
  { MakeJob("from=ETH", << >>, "10", SponsorX),
    MakeJob("from=BTC", << >>, "0", SponsorX),
    MakeJob("from=BTC", << >>, "abc", SponsorX),
    MakeJob("from=BTC", << >>, "100.01", SponsorX),
    MakeJob("from=BTC", << >>, "0.001", SponsorX),
    MakeJob("from=ETH", <<(<<ChainB>>)>>, "-1", SponsorX) }

KeeperJobs ==
  { MakeJob("from=ETH", << >>, "10", SponsorX),
    MakeJob("from=BTC", <<(<<ChainA>>)>>, "10", SponsorX),
    MakeJob("from=ETH", <<(<<ChainB>>)>>, "10", SponsorX),
    MakeJob("from=BTC", << >>, "0", SponsorX),
    MakeJob("from=ETH", << >>, "10", SponsorY) }

\* What the adapter answers for a job's endpoint and parameters.
RrpAdapterValue(job) == IF job.templateParameters = "from=ETH" THEN 1100 ELSE 500

\* The function handed to retryGo for one job, and retryGo's result: << >>
\* when it keeps throwing (logsData is undefined), else the value stored
\* under the job's beaconId, << >> for null.
RrpApiCall(job, outcome) ==
  IF job.endpointId \notin DOMAIN ConfigEndpoints THEN << >>
  ELSE LET endpoint == ConfigEndpoints[job.endpointId]
           expectedEndpointId == ExpectedEndpointId(endpoint)
       IN  IF expectedEndpointId # job.endpointId THEN <<(<< >>)>>
           ELSE IF ExpectedRrpTemplateId(AirnodeAddress, expectedEndpointId,
                                         AbiEncode(job.templateParameters))
                     # job.templateId
                THEN <<(<< >>)>>
           ELSE IF outcome = "error" THEN << >>
           ELSE IF outcome = "null" THEN <<(<< >>)>>
           ELSE <<(<<RrpAdapterValue(job)>>)>>

\* The reduce over the responses into logsAndApiValuesByBeaconId: a later
\* response replaces an earlier one of the same beaconId.
RECURSIVE ReduceByBeaconId(_, _, _)
ReduceByBeaconId(jobs, outcomes, acc) ==
  IF jobs = << >> THEN acc
  ELSE LET logsData == RrpApiCall(Head(jobs), Head(outcomes))
           beaconId == BeaconIdOf(Head(jobs))
           next == IF logsData = << >> THEN acc
                   ELSE [id \in DOMAIN acc \cup {beaconId} |->
                           IF id = beaconId THEN logsData[1] ELSE acc[id]]
       IN  ReduceByBeaconId(Tail(jobs), Tail(outcomes), next)

\* chainIds && !chainIds.includes(chain.id) is false.
ForCurrentChain(job, chainId) ==
  IF job.chainIds = << >> THEN TRUE ELSE chainId \in Range(job.chainIds[1])

\* Number(deviationPercentage) * 100: << >> for NaN, else the number (in
\* thousandths), the whole part of the product and whether the product is an
\* integer.
NumberTimes100(deviationPercentage) ==
  LET thousandths ==
        CASE deviationPercentage = "10" -> <<10000>>
          [] deviationPercentage = "0" -> <<0>>
          [] deviationPercentage = "-1" -> <<-1000>>
          [] deviationPercentage = "100.01" -> <<100010>>
          [] deviationPercentage = "0.001" -> <<1>>
          [] deviationPercentage = "abc" -> << >>
  IN  IF thousandths = << >> THEN << >>
      ELSE <<[number |-> thousandths[1],
              value |-> thousandths[1] \div 10,
              isInteger |-> thousandths[1] % 10 = 0]>>

\* A check that lets a deviationPercentage of 0 through.
ValidDeviationPercentageOrZero(deviationPercentage) ==
  LET n == NumberTimes100(deviationPercentage) IN
    /\ n # << >>
    /\ n[1].number >= 0
    /\ n[1].number <= 100000
    /\ n[1].isInteger

\* The deviationPercentage passes the checks of lines 272-277.
ValidDeviationPercentage(deviationPercentage) ==
  LET n == NumberTimes100(deviationPercentage) IN
    /\ n # << >>
    /\ n[1].number > 0
    /\ n[1].number <= 100000
    /\ n[1].isInteger

Abs(n) == IF n < 0 THEN 0 - n ELSE n

\* The distance of the API value from zero, the beacon's value left out.
DeltaFromZero(beaconValue, apiValue) == Abs(apiValue)

\* beaconValue.sub(apiValue).abs()
Delta(beaconValue, apiValue) == Abs(beaconValue - apiValue)

\* delta.mul(basisPoints).mul(100).div(beaconValue), beaconValue being One
\* when the beacon's value is zero.
Deviation(beaconValue, apiValue) ==
  LET divisor == IF beaconValue = 0 THEN 1 ELSE beaconValue
  IN  BigDiv(BigMul(BigMul(BasisPoints, Delta(beaconValue, apiValue)), 100), divisor)

\* basisPoints.mul(Number(deviationPercentage) * 100)
PercentageThreshold(deviationPercentage) ==
  BigMul(BasisPoints, NumberTimes100(deviationPercentage)[1].value)

\* A comparison that lets a deviation equal to the threshold through.
WithinThresholdStrict(beaconValue, apiValue, deviationPercentage) ==
  ~BigLte(BigDiv(PercentageThreshold(deviationPercentage), 100),
          Deviation(beaconValue, apiValue))

\* deviation.lte(percentageThreshold.div(100))
WithinThreshold(beaconValue, apiValue, deviationPercentage) ==
  BigLte(Deviation(beaconValue, apiValue),
         BigDiv(PercentageThreshold(deviationPercentage), 100))

\* ------------------------------------------------------------------- state

VARIABLES
  entry,                     \* the function this run invokes
  protoPsp,                  \* config.triggers.protoPsp of the cycle
  pc,                        \* where updateBeacon stands
  groupedSubscriptions,      \* state.groupedSubscriptions
  apiCalls,                  \* per group: attempts made, the adapter's
                             \* answers to them and go()'s result
  apiValuesBySubscriptionId, \* state.apiValuesBySubscriptionId
  providerInits,             \* per evm provider: initializeProvider's result
  providerStates,            \* state.providerStates
  runs,                      \* per provider state: submitTransactions' closure
  providerCall,              \* one call of initializeProvider and its result
  rrp,                       \* the RRP handler's cycle
  beaconUpdate               \* psp.ts: one provider's closure of beaconUpdate

vars == <<entry, protoPsp, pc, groupedSubscriptions, apiCalls,
          apiValuesBySubscriptionId, providerInits, providerStates, runs,
          providerCall, rrp, beaconUpdate>>

config == ConfigOf(protoPsp)

PendingCall == [attempts |-> 0, answers |-> << >>, response |-> << >>]

\* The handler has merged its config and calls updateBeacon.
InitPspHandler ==
  /\ entry = "psp.handler"
  /\ protoPsp \in TriggerLists
  /\ pc = "initializeState"
  /\ groupedSubscriptions = << >>
  /\ apiCalls = << >>
  /\ apiValuesBySubscriptionId = EmptyMap
  /\ providerInits = << >>
  /\ providerStates = << >>
  /\ runs = << >>
  /\ providerCall = << >>
  /\ rrp = << >>
  /\ beaconUpdate = << >>

\* What the go() of one group can resolve to.
ResponsesOf(group) ==
  { FailedResponse } \cup
  { SuccessResponse([templateId |-> group.template.id, apiValue |-> v]) :
    v \in {<< >>, <<AdapterValue(group.template)>>} }

\* executeApiCalls at its Promise.all, with every go() resolved to any
\* response a call can resolve to.
InitPspResponses ==
  /\ entry = "psp.responses"
  /\ protoPsp \in ResponseTriggerLists
  /\ pc = "executeApiCalls"
  /\ groupedSubscriptions = InitializeStateGroups(config)
  /\ apiCalls \in
       { calls \in [1..Len(groupedSubscriptions) ->
                     { [attempts |-> 1, answers |-> << >>, response |-> <<r>>] :
                       r \in UNION { ResponsesOf(groupedSubscriptions[g]) :
                                     g \in 1..Len(groupedSubscriptions) } }] :
         \A g \in 1..Len(groupedSubscriptions) :
           calls[g].response[1] \in ResponsesOf(groupedSubscriptions[g]) }
  /\ apiValuesBySubscriptionId = EmptyMap
  /\ providerInits = << >>
  /\ providerStates = << >>
  /\ runs = << >>
  /\ providerCall = << >>
  /\ rrp = << >>
  /\ beaconUpdate = << >>

\* The chains and the provider answers initializeProvider is called with.
CallChains ==
  { [id |-> ChainA, type |-> "evm", providers |-> <<"local">>,
     options |-> [txType |-> txType, baseFeeMultiplier |-> multiplier,
                  priorityFee |-> fee]] :
    txType \in {"legacy", "eip1559"}, multiplier \in {1, 2},
    fee \in { [value |-> 3, unit |-> "kwei"], [value |-> 312, unit |-> "wei"],
              [value |-> 2, unit |-> "gwei"] } }

CallRpcs ==
  { [blockNumber |-> b, block |-> k, gasPrice |-> g] :
    b \in {<< >>, <<100>>, <<101>>},
    k \in {<< >>, <<[baseFeePerGas |-> 1000]>>, <<[baseFeePerGas |-> 7]>>},
    g \in {<< >>, <<1000>>} }

\* initializeProvider(chain, providerUrl) is about to be called.
InitInitializeProvider ==
  /\ entry = "initializeProvider"
  /\ providerCall \in { [chain |-> chain, rpc |-> rpc, result |-> << >>] :
                         chain \in CallChains, rpc \in CallRpcs }
  /\ protoPsp = << >>
  /\ pc = "call"
  /\ groupedSubscriptions = << >>
  /\ apiCalls = << >>
  /\ apiValuesBySubscriptionId = EmptyMap
  /\ providerInits = << >>
  /\ providerStates = << >>
  /\ runs = << >>
  /\ rrp = << >>
  /\ beaconUpdate = << >>

\* The chain an RRP cycle works on: the evm chain, through one provider.
RrpChainId == ChainA

\* What readBeacon answers for each beaconId during the cycle.
BeaconValues ==
  { (BeaconIdOf(MakeJob("from=ETH", << >>, "10", SponsorX)) :> eth)
    @@ (BeaconIdOf(MakeJob("from=BTC", << >>, "10", SponsorX)) :> btc) :
    eth \in {1100, 1000, 999}, btc \in {500, 0} }

\* The RRP handler has merged its config and checked the airnode address.
InitRrpHandlerWith(keeperJobs) ==
  /\ entry = "rrp.handler"
  /\ rrp \in { [jobs |-> jobs, beacons |-> beacons, apiValues |-> EmptyMap,
                 loops |-> << >>] :
                jobs \in SeqsUpTo(keeperJobs, MaxJobs), beacons \in BeaconValues }
  /\ pc = "rrp.apiCalls"
  /\ protoPsp = << >>
  /\ groupedSubscriptions = << >>
  /\ apiCalls = << >>
  /\ apiValuesBySubscriptionId = EmptyMap
  /\ providerInits = << >>
  /\ providerStates = << >>
  /\ runs = << >>
  /\ providerCall = << >>
  /\ beaconUpdate = << >>

InitRrpHandler == InitRrpHandlerWith(KeeperJobs)

\* The handler of rrp.ts with a config whose jobs are drawn from
\* DeviationJobs.
InitDeviationJobs == InitRrpHandlerWith(DeviationJobs)

\* The trigger lists of a cycle of psp.ts: over subscriptions of both
\* sponsors, one whose template is in no config.templates entry, and the
\* mismatched id.
BeaconUpdateTriggerIds ==
  { ExpectedSubscriptionId(s) :
      s \in { t \in ValidSubscriptions :
                t.templateId \in {TemplateIdEth, TemplateIdBtc, TemplateIdAbsent} } }
  \cup {MismatchedSubscriptionId}

\* psp.ts: the closure of one provider of beaconUpdate has fetched the block
\* number and is about to read triggers['proto-psp'].
InitBeaconUpdate ==
  /\ entry = "psp.beaconUpdate"
  /\ protoPsp \in SeqsUpTo(BeaconUpdateTriggerIds, MaxTriggers)
  /\ pc = "beaconUpdate.subscriptions"
  /\ beaconUpdate = [protoSubscriptions |-> << >>, loops |-> << >>]
  /\ groupedSubscriptions = << >>
  /\ apiCalls = << >>
  /\ apiValuesBySubscriptionId = EmptyMap
  /\ providerInits = << >>
  /\ providerStates = << >>
  /\ runs = << >>
  /\ providerCall = << >>
  /\ rrp = << >>

\* ------------------------------------------------- psp.ts: the merged config

\* airnodeConfig.chains: an evm chain and a chain of another type, each with
\* its contracts object.
AirnodeConfigChains ==
  { [id |-> ChainB, type |-> "evm", contracts |-> [AirnodeRrp |-> "0xAirnodeRrp"]],
    [id |-> "2", type |-> "other", contracts |-> [AirnodeRrp |-> "0xOtherRrp"]] }

\* airkeeperConfig.chains: entries for both node chains (one adding a
\* contract, one replacing a contract), an entry whose id is in no node
\* chain and an entry without id.  An absent property is << >>.
AirkeeperConfigChains ==
  { [id |-> <<ChainB>>, type |-> << >>, contracts |-> [DapiServer |-> "0xDapiServer"]],
    [id |-> <<ChainB>>, type |-> <<"evm">>, contracts |-> [AirnodeRrp |-> "0xKeeperRrp"]],
    [id |-> <<"2">>, type |-> << >>, contracts |-> [DapiServer |-> "0xOtherDapi"]],
    [id |-> <<"3">>, type |-> <<"evm">>, contracts |-> [DapiServer |-> "0xDapiServer"]],
    [id |-> << >>, type |-> <<"evm">>, contracts |-> [DapiServer |-> "0xDapiServer"]] }

\* A lookup that falls back on the first chain when no id matches.
FindChainOrFirst(chains, id) ==
  IF \E j \in 1..Len(chains) : chains[j].id = id
  THEN CHOOSE j \in 1..Len(chains) :
         chains[j].id = id /\ \A i \in 1..(j - 1) : chains[i].id # id
  ELSE IF chains = << >> THEN 0 ELSE 1

\* airnodeConfig.chains.find((c) => c.id === chain.id): the position of the
\* first chain of that id, 0 for undefined.
FindChain(chains, id) ==
  IF \E j \in 1..Len(chains) : chains[j].id = id
  THEN CHOOSE j \in 1..Len(chains) :
         chains[j].id = id /\ \A i \in 1..(j - 1) : chains[i].id # id
  ELSE 0

\* lodash merge(configChain, chain): the properties of chain are written
\* into configChain, objects recursively, and configChain is returned.
Merge(configChain, chain) ==
  [id |-> chain.id[1],
   type |-> IF chain.type = << >> THEN configChain.type ELSE chain.type[1],
   contracts |->
     [name \in DOMAIN configChain.contracts \cup DOMAIN chain.contracts |->
        IF name \in DOMAIN chain.contracts
        THEN chain.contracts[name]
        ELSE configChain.contracts[name]]]

\* psp.ts: beaconUpdate has loaded both configs and is about to map over
\* airkeeperConfig.chains.  chains holds, for every merged chain, the
\* position of the airnodeConfig chain object that merge returned;
\* airnodeConfig keeps the chains as loaded.
InitMergeConfigs ==
  /\ entry = "psp.config"
  /\ beaconUpdate \in
       { [airnodeConfig |-> airnodeChains, airnodeChains |-> airnodeChains,
          airkeeperChains |-> airkeeperChains, chains |-> << >>,
          error |-> << >>, contacted |-> << >>] :
           airnodeChains \in SeqsUpTo(AirnodeConfigChains, 2),
           airkeeperChains \in SeqsUpTo(AirkeeperConfigChains, 2) }
  /\ pc = "config.chains"
  /\ protoPsp = << >>
  /\ groupedSubscriptions = << >>
  /\ apiCalls = << >>
  /\ apiValuesBySubscriptionId = EmptyMap
  /\ providerInits = << >>
  /\ providerStates = << >>
  /\ runs = << >>
  /\ providerCall = << >>
  /\ rrp = << >>

\* ------------------------------------------- rrp.ts: the airnode address

\* ethers.utils.defaultPath
DefaultPath == "m/44'/60'/0'/0/0"

\* node.derivePath(path): an absolute path starts again from the root, a
\* relative one goes on from the node.
DerivePath(hdNode, path) ==
  IF path = DefaultPath
  THEN [seed |-> hdNode.seed, path |-> path]
  ELSE [seed |-> hdNode.seed, path |-> hdNode.path \o "/" \o path]

\* hdNode.address: one address per seed and path.
AddressOf(hdNode) == "address(" \o hdNode.seed \o "," \o hdNode.path \o ")"

\* The address always taken from the mnemonic.
AirnodeAddressFromMnemonic(mnemonic, airnodeXpub) ==
  AddressOf(DerivePath([seed |-> mnemonic, path |-> "m"], DefaultPath))

\* const airnodeAddress = (airkeeperConfig.airnodeXpub ? ... : ...).address
\* HDNode.fromMnemonic gives the root node of the mnemonic's tree,
\* HDNode.fromExtendedKey the node the key was exported from; an airnodeXpub
\* is the key of a mnemonic's account m/44'/60'/0'.
DerivedAirnodeAddress(mnemonic, airnodeXpub) ==
  IF airnodeXpub # << >>
  THEN AddressOf(DerivePath(airnodeXpub[1], "0/0"))
  ELSE AddressOf(DerivePath([seed |-> mnemonic, path |-> "m"], DefaultPath))

\* rrp.ts: the handler has loaded and merged its configs.  The keeper config
\* has no airnodeXpub, the one of the node's mnemonic or the one of another
\* mnemonic, and no airnodeAddress, the node's or another one.
InitAirnodeAddress ==
  /\ entry = "rrp.config"
  /\ rrp \in
       { [mnemonic |-> mnemonic, airnodeXpub |-> airnodeXpub,
          airnodeAddress |-> airnodeAddress, error |-> << >>, calls |-> << >>] :
           mnemonic \in {"mnemonicA", "mnemonicB"},
           airnodeXpub \in
             {<< >>} \cup { <<[seed |-> m, path |-> "m/44'/60'/0'"]>> :
                              m \in {"mnemonicA", "mnemonicB"} },
           airnodeAddress \in
             {<< >>} \cup { <<AddressOf([seed |-> m, path |-> DefaultPath])>> :
                              m \in {"mnemonicA", "mnemonicB"} } }
  /\ pc = "config.airnodeAddress"
  /\ protoPsp = << >>
  /\ groupedSubscriptions = << >>
  /\ apiCalls = << >>
  /\ apiValuesBySubscriptionId = EmptyMap
  /\ providerInits = << >>
  /\ providerStates = << >>
  /\ runs = << >>
  /\ providerCall = << >>
  /\ beaconUpdate = << >>

\* Blocks the chain is let mine while the handler runs.
MaxMined == 2

BLOCK_COUNT_HISTORY_LIMIT == 300

\* chain.blockHistoryLimit || BLOCK_COUNT_HISTORY_LIMIT
BlockHistoryLimitOf(chain) ==
  IF chain.blockHistoryLimit = << >> \/ chain.blockHistoryLimit = <<0>>
  THEN BLOCK_COUNT_HISTORY_LIMIT
  ELSE chain.blockHistoryLimit[1]

\* The handler of rrp.ts at 3.1 for one provider of a chain: the chain is at
\* block head, the provider has not yet fetched a block number.
InitEventQueries ==
  /\ entry = "rrp.events"
  /\ rrp \in { [chain |-> [blockHistoryLimit |-> limit], head |-> head, mined |-> 0,
                 blockNumber |-> << >>, fresh |-> FALSE, currentBlock |-> << >>,
                 queries |-> << >>] :
                limit \in {<< >>, <<0>>, <<2>>, <<500>>},
                head \in {0, 1, 2, 3, 299, 300, 301, 600} }
  /\ pc = "events.getBlockNumber"
  /\ protoPsp = << >>
  /\ groupedSubscriptions = << >>
  /\ apiCalls = << >>
  /\ apiValuesBySubscriptionId = EmptyMap
  /\ providerInits = << >>
  /\ providerStates = << >>
  /\ runs = << >>
  /\ providerCall = << >>
  /\ beaconUpdate = << >>

\* The handler of initialize-provider.test.ts 153-538 at STEP 3 of its
\* updateBeacon: initializeProviders has started the initializeProvider call
\* of every provider of the evm chains.
InitProviderStates ==
  /\ entry = "psp.providerStates"
  /\ protoPsp \in TriggerLists
  /\ pc = "providerStates.initialize"
  /\ groupedSubscriptions = << >>
  /\ apiCalls = << >>
  /\ apiValuesBySubscriptionId = EmptyMap
  /\ providerInits = [p \in 1..Len(EvmProviders(ConfigOf(protoPsp))) |->
                        [settled |-> FALSE, data |-> << >>]]
  /\ providerStates = << >>
  /\ runs = << >>
  /\ providerCall = << >>
  /\ rrp = << >>
  /\ beaconUpdate = << >>

Init ==
  \/ InitMergeConfigs
  \/ InitAirnodeAddress
  \/ InitPspHandler
  \/ InitPspResponses
  \/ InitInitializeProvider
  \/ InitRrpHandler
  \/ InitBeaconUpdate
  \/ InitProviderStates
  \/ InitEventQueries

\* ------------------------------------------------------- initializeProvider

\* The call resolves to [logs, data].
InitializeProviderReturns ==
  /\ entry = "initializeProvider"
  /\ pc = "call"
  /\ providerCall' =
       [providerCall EXCEPT
          !.result = <<InitializeProvider(providerCall.chain, providerCall.rpc)>>]
  /\ pc' = "returned"
  /\ UNCHANGED <<entry, protoPsp, groupedSubscriptions, apiCalls,
                 apiValuesBySubscriptionId, providerInits, providerStates,
                 runs, rrp, beaconUpdate>>

\* ------------------------------------------------------------- rrp handler

pspVars == <<protoPsp, groupedSubscriptions, apiCalls, apiValuesBySubscriptionId,
             providerInits, providerStates, runs, providerCall, beaconUpdate>>

\* 2. Promise.all(apiValuePromises) resolves and the responses are reduced.
RrpApiCalls ==
  /\ entry = "rrp.handler"
  /\ pc = "rrp.apiCalls"
  /\ \E outcomes \in [1..Len(rrp.jobs) -> AdapterOutcomes] :
       rrp' = [rrp EXCEPT !.apiValues = ReduceByBeaconId(rrp.jobs, outcomes, EmptyMap)]
  /\ pc' = "rrp.getBlockNumber"
  /\ UNCHANGED <<entry, pspVars>>

\* The closure of one keeperSponsor, at its getTransactionCount.  jobs are
\* the positions of the sponsor's jobs in the trigger list.
NewLoop(keeperSponsor) ==
  [keeperSponsor |-> keeperSponsor,
   jobs |-> SelectSeq([k \in 1..Len(rrp.jobs) |-> k],
                      LAMBDA k : rrp.jobs[k].keeperSponsor = keeperSponsor),
   status |-> "transactionCount", idx |-> 0, transactionCount |-> << >>,
   nextNonce |-> 0, txs |-> << >>]

\* 3.1 getBlockNumber resolves: on failure the provider's closure returns,
\* else one closure starts per keeperSponsor.
RrpGetBlockNumber ==
  /\ entry = "rrp.handler"
  /\ pc = "rrp.getBlockNumber"
  /\ \E fetched \in BOOLEAN :
       IF ~fetched THEN pc' = "returned" /\ UNCHANGED rrp
       ELSE LET keeperSponsors ==
                  KeysInOrder([k \in 1..Len(rrp.jobs) |-> rrp.jobs[k].keeperSponsor])
            IN  /\ rrp' = [rrp EXCEPT !.loops =
                             [l \in 1..Len(keeperSponsors) |-> NewLoop(keeperSponsors[l])]]
                /\ pc' = "rrp.loops"
  /\ UNCHANGED <<entry, pspVars>>

\* The keeperSponsor closures go on after one of them has thrown.
LoopsRun == entry = "rrp.handler" /\ pc \in {"rrp.loops", "thrown"}

\* 3.2.2 getTransactionCount of the keeperSponsorWallet resolves: on failure
\* the closure returns, else nextNonce is the fetched count.
RrpTransactionCount(l) ==
  /\ LoopsRun
  /\ l \in 1..Len(rrp.loops)
  /\ rrp.loops[l].status = "transactionCount"
  /\ \E fetched \in BOOLEAN :
       LET count == TransactionCountAt(
                      RrpChainId,
                      SponsorWalletAddress(rrp.loops[l].keeperSponsor, "12345"))
       IN  rrp' = IF fetched
                  THEN [rrp EXCEPT !.loops[l].status = "running",
                                   !.loops[l].transactionCount = <<count>>,
                                   !.loops[l].nextNonce = count]
                  ELSE [rrp EXCEPT !.loops[l].status = "done"]
  /\ UNCHANGED <<entry, pc, pspVars>>

\* The job the for loop of closure l is at.
CurrentJob(l) == rrp.jobs[rrp.loops[l].jobs[rrp.loops[l].idx + 1]]

CurrentApiValue(l) == rrp.apiValues[BeaconIdOf(CurrentJob(l))]

CurrentBeaconValue(l) == rrp.beacons[BeaconIdOf(CurrentJob(l))]

\* The for loop of closure l is at a job.
AtJob(l) ==
  /\ LoopsRun
  /\ l \in 1..Len(rrp.loops)
  /\ rrp.loops[l].status = "running"
  /\ rrp.loops[l].idx < Len(rrp.loops[l].jobs)

\* A continue that takes a nonce with it.
SkipJobConsumingNonce(l) ==
  /\ rrp' = [rrp EXCEPT !.loops[l].idx = @ + 1, !.loops[l].nextNonce = @ + 1]
  /\ UNCHANGED <<entry, pc, pspVars>>

\* continue
SkipJob(l) ==
  /\ rrp' = [rrp EXCEPT !.loops[l].idx = @ + 1]
  /\ UNCHANGED <<entry, pc, pspVars>>

\* 3.2.3.2 the job is not for the current chain.
SkipOtherChain(l) ==
  /\ AtJob(l)
  /\ ~ForCurrentChain(CurrentJob(l), RrpChainId)
  /\ SkipJob(l)

\* The job reaches the read of the cache (line 261).
AtApiValue(l) == AtJob(l) /\ ForCurrentChain(CurrentJob(l), RrpChainId)

\* 3.2.3.3 logsAndApiValuesByBeaconId has no entry for the beaconId: reading
\* .apiValue of undefined throws and the closure's promise rejects.
ThrowOnMissingEntry(l) ==
  /\ AtApiValue(l)
  /\ BeaconIdOf(CurrentJob(l)) \notin DOMAIN rrp.apiValues
  /\ rrp' = [rrp EXCEPT !.loops[l].status = "thrown"]
  /\ UNCHANGED <<entry, pc, pspVars>>

\* 3.2.3.3 the cached API value is null.
SkipMissingApiValue(l) ==
  /\ AtApiValue(l)
  /\ BeaconIdOf(CurrentJob(l)) \in DOMAIN rrp.apiValues
  /\ CurrentApiValue(l) = << >>
  /\ SkipJob(l)

AtDeviationPercentage(l) ==
  /\ AtApiValue(l)
  /\ BeaconIdOf(CurrentJob(l)) \in DOMAIN rrp.apiValues
  /\ CurrentApiValue(l) # << >>

\* 3.2.3.4 the deviationPercentage is rejected.
SkipInvalidDeviationPercentage(l) ==
  /\ AtDeviationPercentage(l)
  /\ ~ValidDeviationPercentage(CurrentJob(l).deviationPercentage)
  /\ SkipJob(l)

AtReadBeacon(l) ==
  /\ AtDeviationPercentage(l)
  /\ ValidDeviationPercentage(CurrentJob(l).deviationPercentage)

\* 3.2.3.5 readBeacon fails or answers no value.
SkipReadBeaconFailed(l) ==
  /\ AtReadBeacon(l)
  /\ SkipJob(l)

\* 3.2.3.6 the beacon's value is the API value.
SkipUpToDate(l) ==
  /\ AtReadBeacon(l)
  /\ Delta(CurrentBeaconValue(l), CurrentApiValue(l)[1]) = 0
  /\ SkipJob(l)

\* 3.2.3.7 the deviation is within the threshold.
SkipWithinThreshold(l) ==
  /\ AtReadBeacon(l)
  /\ Delta(CurrentBeaconValue(l), CurrentApiValue(l)[1]) # 0
  /\ WithinThreshold(CurrentBeaconValue(l), CurrentApiValue(l)[1],
                     CurrentJob(l).deviationPercentage)
  /\ SkipJob(l)

AtEvents(l) ==
  /\ AtReadBeacon(l)
  /\ Delta(CurrentBeaconValue(l), CurrentApiValue(l)[1]) # 0
  /\ ~WithinThreshold(CurrentBeaconValue(l), CurrentApiValue(l)[1],
                      CurrentJob(l).deviationPercentage)

\* What the two event queries and requestIsAwaitingFulfillment can answer
\* for a job: the requestIds of the RequestedBeaconUpdate events in block
\* order, those of the UpdatedBeacon events, and the requests that are
\* awaiting fulfillment.
EventWindows ==
  { [requested |-> << >>, updated |-> {}, awaiting |-> {}],
    [requested |-> <<"r1">>, updated |-> {"r1"}, awaiting |-> {}],
    [requested |-> <<"r1">>, updated |-> {}, awaiting |-> {"r1"}],
    [requested |-> <<"r1", "r2">>, updated |-> {"r1"}, awaiting |-> {"r2"}],
    [requested |-> <<"r1", "r2">>, updated |-> {}, awaiting |-> {"r2"}] }

\* The RequestedBeaconUpdate events without an UpdatedBeacon event of the
\* same requestId.
PendingRequests(window) ==
  SelectSeq(window.requested, LAMBDA requestId : requestId \notin window.updated)

\* const [pendingRequestedBeaconUpdateEvent] = ...: the first unmatched
\* event, if there is one, is the one asked about.
FirstPendingAwaits(window) ==
  IF PendingRequests(window) = << >> THEN FALSE
  ELSE Head(PendingRequests(window)) \in window.awaiting

\* 3.2.3.8 one of the two event queries fails.
SkipEventsFailed(l) ==
  /\ AtEvents(l)
  /\ SkipJob(l)

\* 3.2.3.8 the first unmatched RequestedBeaconUpdate is awaiting
\* fulfillment, or the call that asks fails.
SkipAwaitingFulfillment(l) ==
  /\ AtEvents(l)
  /\ \E window \in EventWindows : \E answered \in BOOLEAN :
       /\ PendingRequests(window) # << >>
       /\ answered => FirstPendingAwaits(window)
  /\ SkipJob(l)

\* 3.2.3.9 getGasPrice answers no gas target.
SkipGasPriceFailed(l) ==
  /\ AtEvents(l)
  /\ SkipJob(l)

\* 3.2.3.10 no first unmatched request is awaiting fulfillment, the gas
\* target is fetched, nonce = nextNonce++ and requestBeaconUpdate is sent.
\* events is what the job's event queries answered.
SubmitRequestBeaconUpdate(l) ==
  /\ AtEvents(l)
  /\ \E window \in EventWindows :
       /\ ~FirstPendingAwaits(window)
       /\ rrp' = [rrp EXCEPT
                    !.loops[l].status = "submitting",
                    !.loops[l].nextNonce = @ + 1,
                    !.loops[l].txs =
                      Append(@, [job |-> rrp.loops[l].jobs[rrp.loops[l].idx + 1],
                                 nonce |-> rrp.loops[l].nextNonce,
                                 events |-> window,
                                 settled |-> << >>])]
  /\ UNCHANGED <<entry, pc, pspVars>>

\* A loop that returns when requestBeaconUpdate fails.
RequestBeaconUpdateSettlesOrHalts(l) ==
  /\ LoopsRun
  /\ l \in 1..Len(rrp.loops)
  /\ rrp.loops[l].status = "submitting"
  /\ \E success \in BOOLEAN :
       rrp' = [rrp EXCEPT
                 !.loops[l].status = IF success THEN "running" ELSE "done",
                 !.loops[l].idx = @ + 1,
                 !.loops[l].txs[Len(rrp.loops[l].txs)].settled = <<success>>]
  /\ UNCHANGED <<entry, pc, pspVars>>

\* retryGo of requestBeaconUpdate resolves with the transaction or with an
\* error; the loop goes on either way.
RequestBeaconUpdateSettles(l) ==
  /\ LoopsRun
  /\ l \in 1..Len(rrp.loops)
  /\ rrp.loops[l].status = "submitting"
  /\ \E success \in BOOLEAN :
       rrp' = [rrp EXCEPT
                 !.loops[l].status = "running",
                 !.loops[l].idx = @ + 1,
                 !.loops[l].txs[Len(rrp.loops[l].txs)].settled = <<success>>]
  /\ UNCHANGED <<entry, pc, pspVars>>

\* The for loop of closure l is over.
LoopReturns(l) ==
  /\ LoopsRun
  /\ l \in 1..Len(rrp.loops)
  /\ rrp.loops[l].status = "running"
  /\ rrp.loops[l].idx = Len(rrp.loops[l].jobs)
  /\ rrp' = [rrp EXCEPT !.loops[l].status = "done"]
  /\ UNCHANGED <<entry, pc, pspVars>>

\* Promise.all(providerPromises) resolves and the handler answers 200.
RrpHandlerReturn ==
  /\ entry = "rrp.handler"
  /\ pc = "rrp.loops"
  /\ \A l \in 1..Len(rrp.loops) : rrp.loops[l].status = "done"
  /\ pc' = "returned"
  /\ UNCHANGED <<entry, rrp, pspVars>>

\* Promise.all rejects with the TypeError of a closure: the handler throws.
RrpHandlerThrows ==
  /\ entry = "rrp.handler"
  /\ pc = "rrp.loops"
  /\ \E l \in 1..Len(rrp.loops) : rrp.loops[l].status = "thrown"
  /\ pc' = "thrown"
  /\ UNCHANGED <<entry, rrp, pspVars>>

\* ------------------------------------------------------------ updateBeacon

\* STEP 1: initializeState(config).
InitializeState ==
  /\ pc = "initializeState"
  /\ groupedSubscriptions' = InitializeStateGroups(config)
  /\ apiCalls' = [g \in 1..Len(groupedSubscriptions') |-> PendingCall]
  /\ pc' = "executeApiCalls"
  /\ UNCHANGED <<entry, providerCall, rrp, beaconUpdate, protoPsp, apiValuesBySubscriptionId, providerInits,
                 providerStates, runs>>

\* STEP 2: one attempt of the go() of group g.  A throwing attempt is
\* retried once; after that go() resolves to a failure.  answers keeps what
\* the HTTP adapter answers, or would answer, to each attempt.
AttemptApiCall(g) ==
  /\ pc = "executeApiCalls"
  /\ g \in 1..Len(apiCalls)
  /\ apiCalls[g].response = << >>
  /\ \E outcome \in AdapterOutcomes :
       LET attempt == ApiAttempt(groupedSubscriptions[g], outcome)
           attempts == apiCalls[g].attempts + 1
           answers == Append(apiCalls[g].answers, outcome)
       IN  apiCalls' =
             [apiCalls EXCEPT ![g] =
                IF ~attempt.threw
                THEN [attempts |-> attempts, answers |-> answers,
                      response |-> <<SuccessResponse(attempt.data)>>]
                ELSE IF attempts < ApiMaxAttempts
                THEN [attempts |-> attempts, answers |-> answers, response |-> << >>]
                ELSE [attempts |-> attempts, answers |-> answers,
                      response |-> <<FailedResponse>>]]
  /\ UNCHANGED <<entry, providerCall, rrp, beaconUpdate, protoPsp, pc, groupedSubscriptions,
                 apiValuesBySubscriptionId, providerInits, providerStates, runs>>

\* STEP 2, after Promise.all: the responses are reduced to
\* apiValuesBySubscriptionId (the responses themselves are local to
\* executeApiCalls), and STEP 3 starts every initializeProvider.
ExecuteApiCallsReturn ==
  /\ pc = "executeApiCalls"
  /\ \A g \in 1..Len(apiCalls) : apiCalls[g].response # << >>
  /\ apiValuesBySubscriptionId' =
       ReduceApiValues(groupedSubscriptions,
                       [g \in 1..Len(apiCalls) |-> apiCalls[g].response[1]],
                       EmptyMap)
  /\ IF EvmProviders(config) = << >>
     THEN pc' = "thrown" /\ UNCHANGED providerInits
     ELSE /\ pc' = "initializeProviders"
          /\ providerInits' =
               [p \in 1..Len(EvmProviders(config)) |-> [settled |-> FALSE, data |-> << >>]]
  /\ apiCalls' = << >>
  /\ UNCHANGED <<entry, providerCall, rrp, beaconUpdate, protoPsp, groupedSubscriptions, providerStates, runs>>

\* STEP 3: the initializeProvider of provider p resolves.
InitializeProviderSettles(p) ==
  /\ pc = "initializeProviders"
  /\ p \in 1..Len(providerInits)
  /\ ~providerInits[p].settled
  /\ \E rpc \in CycleRpcs :
       LET provider == EvmProviders(config)[p]
           result == InitializeProvider(provider.chain, rpc)
       IN  providerInits' =
             [providerInits EXCEPT ![p] =
                [settled |-> TRUE,
                 data |-> IF result.data = << >> THEN << >>
                          ELSE <<ProviderStateOf(provider, result.data[1])>>]]
  /\ UNCHANGED <<entry, providerCall, rrp, beaconUpdate, protoPsp, pc, groupedSubscriptions, apiCalls,
                 apiValuesBySubscriptionId, providerStates, runs>>

\* The orders in which n concurrent calls are let settle: the order of the
\* calls and its reverse (every order there is of up to two calls).
SettleOrders(n) == { [k \in 1..n |-> k], [k \in 1..n |-> n + 1 - k] }

\* A Promise.all that resolves to the values in the order the promises
\* settled.
PromiseAllAsSettled(order, results) ==
  IF results = << >> THEN << >>
  ELSE IF Len(results) = 1 THEN results
  ELSE IF Len(results) = 2 THEN <<results[order[1]], results[order[2]]>>
  ELSE <<results[order[1]], results[order[2]], results[order[3]]>>
       \o SubSeq(results, 4, Len(results))

\* The array of Promise.all from index p on: at the index of each promise,
\* the value of the promise that settled when that promise did.
RECURSIVE PromiseAllFrom(_, _, _)
PromiseAllFrom(order, results, p) ==
  IF p > Len(results) THEN << >>
  ELSE <<results[order[CHOOSE k \in 1..Len(order) : order[k] = p]]>>
       \o PromiseAllFrom(order, results, p + 1)

\* await Promise.all(promises): the promises settle in any order (order[k]
\* is the promise that settles k-th) and the array holds, at the index of
\* each promise, the value that promise resolved to.
PromiseAll(order, results) == PromiseAllFrom(order, results, 1)

\* The closure of one provider state, at its first await: chainSubscriptions
\* is filtered before checkSubscriptionsConditions is called.
NewRun(chainSubscriptions) ==
  [pc |-> "checkConditions", chainSubscriptions |-> chainSubscriptions,
   answers |-> << >>, isValid |-> << >>, transactionCounts |-> << >>,
   wallets |-> << >>]

\* An initializeProviders that resolves with its first settled promise.
InitializeProvidersReturnEarly ==
  /\ pc = "initializeProviders"
  /\ \E p \in 1..Len(providerInits) : providerInits[p].settled
  /\ providerStates' = ValidProviderStates(providerInits)
  /\ runs' = [i \in 1..Len(providerStates') |->
                NewRun(ChainSubscriptions(groupedSubscriptions,
                                          apiValuesBySubscriptionId,
                                          providerStates'[i].chainId))]
  /\ pc' = "submitTransactions"
  /\ UNCHANGED <<entry, providerCall, rrp, beaconUpdate, protoPsp, groupedSubscriptions, apiCalls,
                 apiValuesBySubscriptionId, providerInits>>

\* STEP 3, after Promise.all: the null provider states are filtered out, and
\* STEP 4 starts one closure per provider state.
InitializeProvidersReturn ==
  /\ pc = "initializeProviders"
  /\ \A p \in 1..Len(providerInits) : providerInits[p].settled
  /\ providerStates' = ValidProviderStates(providerInits)
  /\ runs' = [i \in 1..Len(providerStates') |->
                NewRun(ChainSubscriptions(groupedSubscriptions,
                                          apiValuesBySubscriptionId,
                                          providerStates'[i].chainId))]
  /\ pc' = "submitTransactions"
  /\ UNCHANGED <<entry, providerCall, rrp, beaconUpdate, protoPsp, groupedSubscriptions, apiCalls,
                 apiValuesBySubscriptionId, providerInits>>

\* STEP 4, provider state i: checkSubscriptionsConditions resolves.  answers
\* is what checkSubscriptionCondition answered for each subscription of
\* chainSubscriptions (false also when the call failed), isValid the array
\* Promise.all made of the answers, which came in any order.
ChainSubscriptionsOf(i) == runs[i].chainSubscriptions

ValidSubscriptionsOf(i) ==
  ValidSubscriptionsFrom(ChainSubscriptionsOf(i), runs[i].isValid,
                         apiValuesBySubscriptionId, 1)

AwaitsConditions(i) ==
  /\ pc = "submitTransactions"
  /\ i \in 1..Len(runs)
  /\ runs[i].pc = "checkConditions"

CheckSubscriptionsConditions(i) ==
  /\ AwaitsConditions(i)
  /\ \E answers \in [1..Len(ChainSubscriptionsOf(i)) -> BOOLEAN],
        order \in SettleOrders(Len(ChainSubscriptionsOf(i))) :
       runs' = [runs EXCEPT ![i].pc = "transactionCounts",
                            ![i].answers = answers,
                            ![i].isValid = PromiseAll(order, answers)]
  /\ UNCHANGED <<entry, providerCall, rrp, beaconUpdate, protoPsp, pc, groupedSubscriptions, apiCalls,
                 apiValuesBySubscriptionId, providerInits, providerStates>>

\* What getTransactionCount can answer for a sponsor wallet of the chain.
\* A count that goes on, in a second invocation, from the transactions of
\* the first.
FetchedCountsContinued(chainId, sponsor) ==
  LET count == TransactionCountAt(chainId, SponsorWalletAddress(sponsor, PspProtocolId))
  IN  IF providerCall = << >> THEN {<< >>, <<count>>} ELSE {<< >>, <<count + 1>>}

FetchedCounts(chainId, sponsor) ==
  {<< >>, <<TransactionCountAt(chainId, SponsorWalletAddress(sponsor, PspProtocolId))>>}

NewWallet(w) ==
  [sponsor |-> w.sponsor, sponsorWallet |-> w.sponsorWallet,
   transactionCount |-> w.transactionCount, subscriptions |-> w.subscriptions,
   txs |-> << >>]

\* STEP 4, provider state i: groupSubscriptionsBySponsorWallet resolves and
\* one processSponsorWallet starts per sponsor wallet.
AwaitsTransactionCounts(i) ==
  /\ pc = "submitTransactions"
  /\ i \in 1..Len(runs)
  /\ runs[i].pc = "transactionCounts"

GroupSubscriptionsBySponsorWallet(i) ==
  /\ AwaitsTransactionCounts(i)
  /\ LET valid == ValidSubscriptionsOf(i)
         sponsors == SponsorsOf(valid)
     IN  \E fetched \in [Range(sponsors) ->
                            UNION { FetchedCounts(providerStates[i].chainId, sponsor) :
                                    sponsor \in Range(sponsors) }] :
           /\ \A sponsor \in Range(sponsors) :
                fetched[sponsor] \in FetchedCounts(providerStates[i].chainId, sponsor)
           /\ \E order \in SettleOrders(Len(sponsors)) :
              LET wallets == GroupBySponsorWallet(PromiseAll(order, sponsors),
                                                  valid, fetched)
              IN  runs' = [runs EXCEPT
                             ![i].pc = "processSponsorWallets",
                             ![i].transactionCounts = fetched,
                             ![i].wallets = [w \in 1..Len(wallets) |-> NewWallet(wallets[w])]]
  /\ UNCHANGED <<entry, providerCall, rrp, beaconUpdate, protoPsp, pc, groupedSubscriptions, apiCalls,
                 apiValuesBySubscriptionId, providerInits, providerStates>>

\* The transaction of a subscription, as processSponsorWallet sends it.
TransactionOf(subscription, providerState, success) ==
  [id |-> subscription.id, entry |-> subscription.entry,
   nonce |-> subscription.nonce, success |-> success]

\* processSponsorWallet of wallet w of provider state i sends the
\* fulfillPspBeaconUpdate of its next subscription, and the submission
\* resolves or fails; either way the loop goes on to the next subscription.
HasNextSubscription(i, w) ==
  /\ pc = "submitTransactions"
  /\ i \in 1..Len(runs)
  /\ runs[i].pc = "processSponsorWallets"
  /\ w \in 1..Len(runs[i].wallets)
  /\ Len(runs[i].wallets[w].txs) < Len(runs[i].wallets[w].subscriptions)

\* A processSponsorWallet that starts its loop over after a failed submission.
SubmitTransactionStartingOver(i, w) ==
  /\ HasNextSubscription(i, w)
  /\ \E success \in BOOLEAN :
       LET wallet == runs[i].wallets[w]
           subscription == wallet.subscriptions[Len(wallet.txs) + 1]
       IN  runs' = [runs EXCEPT ![i].wallets[w].txs =
                      IF success
                      THEN Append(@, TransactionOf(subscription, providerStates[i], success))
                      ELSE << >>]
  /\ UNCHANGED <<entry, providerCall, rrp, beaconUpdate, protoPsp, pc, groupedSubscriptions, apiCalls,
                 apiValuesBySubscriptionId, providerInits, providerStates>>

SubmitTransaction(i, w) ==
  /\ HasNextSubscription(i, w)
  /\ \E success \in BOOLEAN :
       LET wallet == runs[i].wallets[w]
           subscription == wallet.subscriptions[Len(wallet.txs) + 1]
       IN  runs' = [runs EXCEPT ![i].wallets[w].txs =
                      Append(@, TransactionOf(subscription, providerStates[i], success))]
  /\ UNCHANGED <<entry, providerCall, rrp, beaconUpdate, protoPsp, pc, groupedSubscriptions, apiCalls,
                 apiValuesBySubscriptionId, providerInits, providerStates>>

\* A processSponsorWallet that resolves only when every submission succeeded.
WalletDoneWhenAllSucceeded(wallet) ==
  /\ Len(wallet.txs) = Len(wallet.subscriptions)
  /\ \A k \in 1..Len(wallet.txs) : wallet.txs[k].success

\* processSponsorWallet has resolved: its loop has gone through the
\* subscriptions of the wallet.
WalletDone(wallet) == Len(wallet.txs) = Len(wallet.subscriptions)

\* The closure of provider state i has resolved: every processSponsorWallet
\* it started has gone through its subscriptions.
ProviderDone(i) ==
  /\ runs[i].pc = "processSponsorWallets"
  /\ \A w \in 1..Len(runs[i].wallets) : WalletDone(runs[i].wallets[w])

\* Promise.all(providerPromises) resolves, updateBeacon returns the state and
\* the handler answers with status 200.
HandlerReturn ==
  /\ pc = "submitTransactions"
  /\ \A i \in 1..Len(runs) : ProviderDone(i)
  /\ pc' = "returned"
  /\ UNCHANGED <<entry, providerCall, rrp, beaconUpdate, protoPsp, groupedSubscriptions, apiCalls,
                 apiValuesBySubscriptionId, providerInits, providerStates, runs>>

\* ------------------------------------------------- psp.ts: beaconUpdate

\* The attempts retryGo makes of an operation that keeps failing.
RetryGoMaxAttempts == 2

\* The variables a step of beaconUpdate's provider closure leaves alone.
phasedVars == <<protoPsp, groupedSubscriptions, apiCalls, apiValuesBySubscriptionId,
                providerInits, providerStates, runs, providerCall, rrp>>

\* The closure of one sponsor, before its first await.
NewSponsorLoop(protoSubscriptions, sponsor) ==
  [sponsor |-> sponsor,
   subscriptions |-> SelectSeq(protoSubscriptions, LAMBDA s : s.sponsor = sponsor),
   status |-> "transactionCount", idx |-> 0, transactionCount |-> << >>,
   nonce |-> 0, txs |-> << >>]

\* The ids of triggers['proto-psp'] are resolved and verified as in the
\* phased handler's reduce; without a subscription the closure returns, else
\* one closure starts per sponsor, in groupBy's key order.
FetchSubscriptions ==
  /\ entry = "psp.beaconUpdate"
  /\ pc = "beaconUpdate.subscriptions"
  /\ LET protoSubscriptions == EnabledSubscriptions(config, protoPsp)
         sponsorAddresses == SponsorsOf(protoSubscriptions)
     IN  IF protoSubscriptions = << >>
         THEN pc' = "returned" /\ UNCHANGED beaconUpdate
         ELSE /\ pc' = "beaconUpdate.sponsors"
              /\ beaconUpdate' =
                   [protoSubscriptions |-> protoSubscriptions,
                    loops |-> [l \in 1..Len(sponsorAddresses) |->
                                 NewSponsorLoop(protoSubscriptions, sponsorAddresses[l])]]
  /\ UNCHANGED <<entry, phasedVars>>

\* The sponsor closures go on after one of them has thrown.
SponsorLoopsRun ==
  entry = "psp.beaconUpdate" /\ pc \in {"beaconUpdate.sponsors", "thrown"}

\* getTransactionCount of the sponsor wallet resolves: on failure the closure
\* returns, else nonce starts at the fetched count.
FetchTransactionCount(l) ==
  /\ SponsorLoopsRun
  /\ l \in 1..Len(beaconUpdate.loops)
  /\ beaconUpdate.loops[l].status = "transactionCount"
  /\ \E fetched \in BOOLEAN :
       LET count == TransactionCountAt(
                      ChainA, SponsorWalletAddress(beaconUpdate.loops[l].sponsor, "3"))
       IN  beaconUpdate' =
             IF fetched
             THEN [beaconUpdate EXCEPT !.loops[l].status = "running",
                                       !.loops[l].transactionCount = <<count>>,
                                       !.loops[l].nonce = count]
             ELSE [beaconUpdate EXCEPT !.loops[l].status = "done"]
  /\ UNCHANGED <<entry, pc, phasedVars>>

\* The for loop of sponsor closure l is at a subscription.
AtSubscription(l) ==
  /\ SponsorLoopsRun
  /\ l \in 1..Len(beaconUpdate.loops)
  /\ beaconUpdate.loops[l].status = "running"
  /\ beaconUpdate.loops[l].idx < Len(beaconUpdate.loops[l].subscriptions)

CurrentSubscription(l) ==
  beaconUpdate.loops[l].subscriptions[beaconUpdate.loops[l].idx + 1]

\* A continue that uses up a nonce.
SkipSubscriptionConsumingNonce(l) ==
  /\ beaconUpdate' = [beaconUpdate EXCEPT !.loops[l].idx = @ + 1,
                                          !.loops[l].nonce = @ + 1]
  /\ UNCHANGED <<entry, pc, phasedVars>>

\* continue
SkipSubscription(l) ==
  /\ beaconUpdate' = [beaconUpdate EXCEPT !.loops[l].idx = @ + 1]
  /\ UNCHANGED <<entry, pc, phasedVars>>

\* templates[subscription.templateId] is nil.
SkipTemplateNotFound(l) ==
  /\ AtSubscription(l)
  /\ CurrentSubscription(l).templateId \notin DOMAIN config.templates
  /\ SkipSubscription(l)

\* The subscription reaches its awaits: the API call, the condition call
\* and getGasPrice.
AtApiCall(l) ==
  /\ AtSubscription(l)
  /\ CurrentSubscription(l).templateId \in DOMAIN config.templates

\* retryGo(readApiValue) answers an error or nothing.
SkipApiCallFailed(l) == AtApiCall(l) /\ SkipSubscription(l)

\* The API data has no value for the subscription.
SkipApiValueMissing(l) == AtApiCall(l) /\ SkipSubscription(l)

\* abi.decode of subscription.conditions, the decoding of the function id
\* or getFunction throws (the bytes of the conditions are left open): the
\* catch logs the error and continues.
SkipConditionsDecodeFailed(l) == AtApiCall(l) /\ SkipSubscription(l)

\* retryGo of the condition call answers [err, null]: the pattern
\* [err, [conditionsMet]] throws and the closure's promise rejects.
ThrowOnConditionCallFailed(l) ==
  /\ AtApiCall(l)
  /\ beaconUpdate' = [beaconUpdate EXCEPT !.loops[l].status = "thrown"]
  /\ UNCHANGED <<entry, pc, phasedVars>>

\* The condition call answers false.
SkipConditionsNotMet(l) == AtApiCall(l) /\ SkipSubscription(l)

\* getGasPrice answers no gas target.
SkipGasTargetFailed(l) == AtApiCall(l) /\ SkipSubscription(l)

\* An attempt that sends with nonce and leaves it as it is.
SendAttemptSameNonce(loop, k) ==
  [loop EXCEPT !.txs[k].nonces = Append(@, loop.nonce)]

\* One run of the closure given to retryGo: nonce++ is evaluated and
\* fulfillPspBeaconUpdate is sent with the value nonce had.
SendAttempt(loop, k) ==
  [loop EXCEPT !.nonce = @ + 1, !.txs[k].nonces = Append(@, loop.nonce)]

\* A submission the loop does not await: the transaction is sent and the
\* loop goes on to the next subscription.
SendWithoutAwait(l) ==
  /\ AtApiCall(l)
  /\ beaconUpdate' =
       [beaconUpdate EXCEPT
          !.loops[l].idx = @ + 1,
          !.loops[l].nonce = @ + 1,
          !.loops[l].txs = Append(@, [id |-> CurrentSubscription(l).id,
                                       position |-> beaconUpdate.loops[l].idx + 1,
                                       currentNonce |-> beaconUpdate.loops[l].nonce,
                                       nonces |-> <<beaconUpdate.loops[l].nonce>>,
                                       settled |-> << >>])]
  /\ UNCHANGED <<entry, pc, phasedVars>>

\* ethers.Wallet.fromMnemonic(nodeSettings.airnodeWalletMnemonic).address:
\* the wallet of the mnemonic itself, derived for no sponsor.
AirnodeWalletAddress == [mnemonic |-> "airnode", sponsor |-> "", protocolId |-> ""]

\* A message signed by the wallet that sends the transaction.
SignMessageWithSponsorWallet(subscription, timestamp, sponsorWallet) ==
  [signer |-> sponsorWallet, subscriptionId |-> subscription.id,
   timestamp |-> timestamp, sponsorWallet |-> sponsorWallet]

\* airnodeWallet.signMessage(arrayify(keccak256(solidityPack(
\* ['bytes32', 'uint256', 'address'], [subscription.id, timestamp,
\* sponsorWallet.address])))): the signer and what was signed.
SignMessage(subscription, timestamp, sponsorWallet) ==
  [signer |-> AirnodeWalletAddress, subscriptionId |-> subscription.id,
   timestamp |-> timestamp, sponsorWallet |-> sponsorWallet]

\* Math.floor(Date.now() / 1000): the clock moves on with the loop, a second
\* for each subscription it has gone through.
Timestamp(loop) == 1000 + loop.idx

\* currentNonce = nonce, then retryGo runs its closure for the first time.
SendFulfillPspBeaconUpdate(l) ==
  /\ AtApiCall(l)
  /\ LET loop == beaconUpdate.loops[l]
         timestamp == Timestamp(loop)
         subscription == CurrentSubscription(l)
         sponsorWallet == SponsorWalletAddress(loop.sponsor, "3")
         started == [loop EXCEPT
                       !.status = "submitting",
                       !.txs = Append(@, [id |-> subscription.id,
                                          position |-> loop.idx + 1,
                                          currentNonce |-> loop.nonce,
                                          nonces |-> << >>, settled |-> << >>,
                                          sender |-> sponsorWallet,
                                          args |-> [subscriptionId |-> subscription.id,
                                                    airnode |-> AirnodeAddress,
                                                    relayer |-> subscription.relayer,
                                                    sponsor |-> subscription.sponsor,
                                                    timestamp |-> timestamp],
                                          signature |-> SignMessage(subscription, timestamp,
                                                                    sponsorWallet)])]
     IN  beaconUpdate' =
           [beaconUpdate EXCEPT !.loops[l] = SendAttempt(started, Len(started.txs))]
  /\ UNCHANGED <<entry, pc, phasedVars>>

\* The attempt in flight settles: a success resolves retryGo, a failure makes
\* retryGo run its closure again until its attempts are used up; then the
\* error is logged and the loop goes on.
FulfillPspBeaconUpdateSettles(l) ==
  /\ SponsorLoopsRun
  /\ l \in 1..Len(beaconUpdate.loops)
  /\ beaconUpdate.loops[l].status = "submitting"
  /\ \E success \in BOOLEAN :
       LET loop == beaconUpdate.loops[l]
           k == Len(loop.txs)
       IN  beaconUpdate' =
             [beaconUpdate EXCEPT !.loops[l] =
                IF ~success /\ Len(loop.txs[k].nonces) < RetryGoMaxAttempts
                THEN SendAttempt(loop, k)
                ELSE [loop EXCEPT !.status = "running", !.idx = @ + 1,
                                  !.txs[k].settled = <<success>>]]
  /\ UNCHANGED <<entry, pc, phasedVars>>

\* The for loop of sponsor closure l is over.
SponsorLoopReturns(l) ==
  /\ SponsorLoopsRun
  /\ l \in 1..Len(beaconUpdate.loops)
  /\ beaconUpdate.loops[l].status = "running"
  /\ beaconUpdate.loops[l].idx = Len(beaconUpdate.loops[l].subscriptions)
  /\ beaconUpdate' = [beaconUpdate EXCEPT !.loops[l].status = "done"]
  /\ UNCHANGED <<entry, pc, phasedVars>>

\* Promise.all(sponsorWalletPromises) resolves and beaconUpdate answers 200.
BeaconUpdateReturn ==
  /\ entry = "psp.beaconUpdate"
  /\ pc = "beaconUpdate.sponsors"
  /\ \A l \in 1..Len(beaconUpdate.loops) : beaconUpdate.loops[l].status = "done"
  /\ pc' = "returned"
  /\ UNCHANGED <<entry, beaconUpdate, phasedVars>>

\* Promise.all rejects with the TypeError of a closure: beaconUpdate throws.
BeaconUpdateThrows ==
  /\ entry = "psp.beaconUpdate"
  /\ pc = "beaconUpdate.sponsors"
  /\ \E l \in 1..Len(beaconUpdate.loops) : beaconUpdate.loops[l].status = "thrown"
  /\ pc' = "thrown"
  /\ UNCHANGED <<entry, beaconUpdate, phasedVars>>

\* --------------------------------------------- psp.ts: config and chains

\* The map callback for the next airkeeperConfig chain: it throws on a
\* missing id and on an id that is in no airnodeConfig chain, and otherwise
\* merges the entry into the chain it found.
MergeChain ==
  /\ entry = "psp.config"
  /\ pc = "config.chains"
  /\ Len(beaconUpdate.chains) < Len(beaconUpdate.airkeeperChains)
  /\ LET chain == beaconUpdate.airkeeperChains[Len(beaconUpdate.chains) + 1]
         j == IF chain.id = << >> THEN 0
              ELSE FindChain(beaconUpdate.airnodeChains, chain.id[1])
     IN  IF chain.id = << >>
         THEN /\ beaconUpdate' =
                   [beaconUpdate EXCEPT !.error = <<"Missing 'id' property in chain config">>]
              /\ pc' = "thrown"
         ELSE IF j = 0
         THEN /\ beaconUpdate' =
                   [beaconUpdate EXCEPT !.error = <<"Chain id not found in node config.json">>]
              /\ pc' = "thrown"
         ELSE /\ beaconUpdate' =
                   [beaconUpdate EXCEPT
                      !.airnodeChains[j] = Merge(@, chain),
                      !.chains = Append(@, j)]
              /\ pc' = pc
  /\ UNCHANGED <<entry, phasedVars>>

\* config.chains, as it is once the map has returned.
MergedChains ==
  [i \in 1..Len(beaconUpdate.chains) |->
     beaconUpdate.airnodeChains[beaconUpdate.chains[i]]]

\* chains.filter((chain) => chain.type === 'evm')
EvmChains == SelectSeq(MergedChains, LAMBDA chain : chain.type = "evm")

\* if (isEmpty(chains)) throw
FilterEvmChains ==
  /\ entry = "psp.config"
  /\ pc = "config.chains"
  /\ Len(beaconUpdate.chains) = Len(beaconUpdate.airkeeperChains)
  /\ IF MergedChains = << >>
     THEN /\ beaconUpdate' =
               [beaconUpdate EXCEPT
                  !.error = <<"One or more evm compatible chain(s) must be defined in the provided config">>]
          /\ pc' = "thrown"
     ELSE /\ beaconUpdate' = beaconUpdate
          /\ pc' = "config.providers"
  /\ UNCHANGED <<entry, phasedVars>>

\* The provider closures of the evm chains run and Promise.all settles:
\* with no closure it resolves, and beaconUpdate returns status 200;
\* otherwise it resolves or rejects as the closures do.
ProcessProviders ==
  /\ entry = "psp.config"
  /\ pc = "config.providers"
  /\ \E rejected \in BOOLEAN :
       /\ rejected => EvmChains # << >>
       /\ beaconUpdate' =
            [beaconUpdate EXCEPT
               !.contacted = [i \in 1..Len(EvmChains) |-> EvmChains[i].id],
               !.error = IF rejected THEN <<"TypeError">> ELSE << >>]
       /\ pc' = IF rejected THEN "thrown" ELSE "returned"
  /\ UNCHANGED <<entry, phasedVars>>

\* ------------------------------------------- rrp.ts: the airnode address

\* if (airkeeperConfig.airnodeAddress && airkeeperConfig.airnodeAddress !== airnodeAddress) throw
CheckAirnodeAddress ==
  /\ entry = "rrp.config"
  /\ pc = "config.airnodeAddress"
  /\ IF /\ rrp.airnodeAddress # << >>
        /\ rrp.airnodeAddress[1] # DerivedAirnodeAddress(rrp.mnemonic, rrp.airnodeXpub)
     THEN /\ rrp' = [rrp EXCEPT !.error = <<"xpub does not belong to Airnode">>]
          /\ pc' = "thrown"
     ELSE /\ rrp' = rrp
          /\ pc' = "config.apiCalls"
  /\ UNCHANGED <<entry, pspVars>>

\* 2. The API values are read: callApi for the jobs.
ReadApiValues ==
  /\ entry = "rrp.config"
  /\ pc = "config.apiCalls"
  /\ rrp' = [rrp EXCEPT !.calls = Append(@, "callApi")]
  /\ pc' = "config.providers"
  /\ UNCHANGED <<entry, pspVars>>

\* 3. The chain providers are processed: getBlockNumber is the first RPC call.
ReadBlockNumber ==
  /\ entry = "rrp.config"
  /\ pc = "config.providers"
  /\ rrp' = [rrp EXCEPT !.calls = Append(@, "getBlockNumber")]
  /\ pc' = "config.done"
  /\ UNCHANGED <<entry, pspVars>>

BeaconUpdateNext ==
  \/ FetchSubscriptions
  \/ \E l \in 1..2 : FetchTransactionCount(l)
  \/ \E l \in 1..2 : SkipTemplateNotFound(l)
  \/ \E l \in 1..2 : SkipApiCallFailed(l)
  \/ \E l \in 1..2 : SkipApiValueMissing(l)
  \/ \E l \in 1..2 : SkipConditionsDecodeFailed(l)
  \/ \E l \in 1..2 : ThrowOnConditionCallFailed(l)
  \/ \E l \in 1..2 : SkipConditionsNotMet(l)
  \/ \E l \in 1..2 : SkipGasTargetFailed(l)
  \/ \E l \in 1..2 : SendFulfillPspBeaconUpdate(l)
  \/ \E l \in 1..2 : FulfillPspBeaconUpdateSettles(l)
  \/ \E l \in 1..2 : SponsorLoopReturns(l)
  \/ BeaconUpdateReturn
  \/ BeaconUpdateThrows

\* ------------------------------------------ rrp.ts: the event queries

\* The chain mines a block.
BlockMined ==
  /\ entry = "rrp.events"
  /\ pc \in {"events.getBlockNumber", "events.requested", "events.updated"}
  /\ rrp.mined < MaxMined
  /\ rrp' = [rrp EXCEPT !.head = @ + 1, !.mined = @ + 1]
  /\ UNCHANGED <<entry, pc, pspVars>>

\* The block number the provider keeps becomes older than the age a
\* negative block tag accepts.
BlockNumberAges ==
  /\ entry = "rrp.events"
  /\ pc \in {"events.requested", "events.updated"}
  /\ rrp.fresh
  /\ rrp' = [rrp EXCEPT !.fresh = FALSE]
  /\ UNCHANGED <<entry, pc, pspVars>>

\* retryGo(() => provider.getBlockNumber()): on failure the closure returns,
\* else currentBlock is the head and the provider keeps it.
EventsGetBlockNumber ==
  /\ entry = "rrp.events"
  /\ pc = "events.getBlockNumber"
  /\ \E fetched \in BOOLEAN :
       IF fetched
       THEN /\ rrp' = [rrp EXCEPT !.currentBlock = <<rrp.head>>,
                                  !.blockNumber = <<rrp.head>>, !.fresh = TRUE]
            /\ pc' = "events.requested"
       ELSE /\ rrp' = rrp
            /\ pc' = "returned"
  /\ UNCHANGED <<entry, pspVars>>

\* The block number a negative fromBlock is counted from: the one the
\* provider keeps while it is fresh, else the head, fetched anew.
InternalBlockNumber == IF rrp.fresh THEN rrp.blockNumber[1] ELSE rrp.head

\* rrpBeaconServer.queryFilter(filter, fromBlock, toBlock): the provider
\* counts a negative fromBlock from its own block number and raises a
\* negative result to 0.
QueryFilter(event, fromBlock, toBlock) ==
  [event |-> event,
   fromBlock |-> IF fromBlock >= 0 THEN fromBlock
                 ELSE IF InternalBlockNumber + fromBlock < 0 THEN 0
                 ELSE InternalBlockNumber + fromBlock,
   toBlock |-> toBlock]

\* The query of event is sent and answers or fails.
QueryEvents(event, next) ==
  /\ \E answered \in BOOLEAN :
       IF answered
       THEN /\ rrp' = [rrp EXCEPT
                         !.queries = Append(@, QueryFilter(
                                                 event,
                                                 BlockHistoryLimitOf(rrp.chain) * (-1),
                                                 rrp.currentBlock[1])),
                         !.blockNumber = <<InternalBlockNumber>>,
                         !.fresh = TRUE]
            /\ pc' = next
       ELSE /\ rrp' = rrp
            /\ pc' = "events.skipped"
  /\ UNCHANGED <<entry, pspVars>>

\* 3.2.3.7 queryFilter(requestedBeaconUpdateFilter, blockHistoryLimit * -1, currentBlock)
QueryRequestedBeaconUpdate ==
  /\ entry = "rrp.events"
  /\ pc = "events.requested"
  /\ QueryEvents("RequestedBeaconUpdate", "events.updated")

\* queryFilter(updatedBeaconFilter, blockHistoryLimit * -1, currentBlock)
QueryUpdatedBeacon ==
  /\ entry = "rrp.events"
  /\ pc = "events.updated"
  /\ QueryEvents("UpdatedBeacon", "events.matched")

EventQueriesNext ==
  \/ BlockMined
  \/ BlockNumberAges
  \/ EventsGetBlockNumber
  \/ QueryRequestedBeaconUpdate
  \/ QueryUpdatedBeacon

\* rrp.ts: the two event queries of one job.
EventQueriesSpec == InitEventQueries /\ [][EventQueriesNext]_vars

\* ------------------------------------ part_002: the handler, invoked twice

\* The trigger lists of the configs the handler is invoked twice with: one
\* subscription of a sponsor, and two of them.
CycleTriggerLists ==
  { <<ExpectedSubscriptionId(MakeSubscription(ChainA, TemplateIdEth, SponsorX))>>,
    <<ExpectedSubscriptionId(MakeSubscription(ChainA, TemplateIdEth, SponsorX)),
      ExpectedSubscriptionId(MakeSubscription(ChainA, TemplateIdBtc, SponsorX))>> }

\* What the API calls of the groups can have answered when Promise.all of
\* executeApiCalls resolves.
DrawnApiCalls(groups) ==
  { calls \in [1..Len(groups) ->
                { [attempts |-> 1, answers |-> << >>, response |-> <<r>>] :
                  r \in UNION { ResponsesOf(groups[g]) : g \in 1..Len(groups) } }] :
    \A g \in 1..Len(groups) : calls[g].response[1] \in ResponsesOf(groups[g]) }

\* The first invocation of the handler, its API responses drawn.
InitCycles ==
  /\ entry = "psp.cycles"
  /\ protoPsp \in CycleTriggerLists
  /\ pc = "executeApiCalls"
  /\ groupedSubscriptions = InitializeStateGroups(config)
  /\ apiCalls \in DrawnApiCalls(groupedSubscriptions)
  /\ apiValuesBySubscriptionId = EmptyMap
  /\ providerInits = << >>
  /\ providerStates = << >>
  /\ runs = << >>
  /\ providerCall = << >>
  /\ rrp = << >>
  /\ beaconUpdate = << >>

\* const state = await updateBeacon(config): updateBeacon starts from
\* initializeState(config) and nothing else.
InvocationState ==
  /\ apiValuesBySubscriptionId' = EmptyMap
  /\ providerInits' = << >>
  /\ providerStates' = << >>
  /\ runs' = << >>

\* The handler has returned and is invoked once more with the same config:
\* what the first invocation ended with is set aside for the comparison, and
\* the second one is at Promise.all of its executeApiCalls.
HandlerInvokedAgain ==
  /\ entry = "psp.cycles"
  /\ pc = "returned"
  /\ providerCall = << >>
  /\ providerCall' = <<[apiValuesBySubscriptionId |-> apiValuesBySubscriptionId,
                        providerStates |-> providerStates, runs |-> runs]>>
  /\ pc' = "executeApiCalls"
  /\ groupedSubscriptions' = InitializeStateGroups(config)
  /\ apiCalls' \in DrawnApiCalls(InitializeStateGroups(config))
  /\ InvocationState
  /\ UNCHANGED <<entry, protoPsp, rrp, beaconUpdate>>

CyclesNext ==
  \/ ExecuteApiCallsReturn
  \/ \E p \in 1..2 : InitializeProviderSettles(p)
  \/ InitializeProvidersReturn
  \/ \E i \in 1..2 : CheckSubscriptionsConditions(i)
  \/ \E i \in 1..2 : GroupSubscriptionsBySponsorWallet(i)
  \/ \E i \in 1..2, w \in 1..2 : SubmitTransaction(i, w)
  \/ HandlerReturn
  \/ HandlerInvokedAgain

\* part_002: two invocations of the handler with one config.
CyclesSpec == InitCycles /\ [][CyclesNext]_vars

\* --------------- initialize-provider.test.ts 325-357, 435-483: providers

\* { config, baseLogOptions, airnodeWallet, ...providerState, chainId,
\* providerName }: the spread of a null providerState adds no property.
SpreadProviderState(provider, data) ==
  IF data = << >>
  THEN [airnodeWallet |-> AirnodeAddress, chainId |-> provider.chain.id,
        providerName |-> provider.providerName]
  ELSE [airnodeWallet |-> AirnodeAddress,
        currentBlock |-> data[1].currentBlock,
        gasTarget |-> data[1].gasTarget,
        chainId |-> provider.chain.id,
        providerName |-> provider.providerName]

\* The promise of provider p resolves: initializeProvider has returned its
\* logs and its data, the data null when the initialization failed, and the
\* callback returns the object it spreads the data into.
ProviderPromiseSettles(p) ==
  /\ pc = "providerStates.initialize"
  /\ p \in 1..Len(providerInits)
  /\ ~providerInits[p].settled
  /\ \E rpc \in CycleRpcs :
       LET provider == EvmProviders(config)[p]
           result == InitializeProvider(provider.chain, rpc)
       IN  providerInits' =
             [providerInits EXCEPT ![p] =
                [settled |-> TRUE,
                 data |-> <<SpreadProviderState(provider, result.data)>>]]
  /\ UNCHANGED <<entry, providerCall, rrp, beaconUpdate, protoPsp, pc, groupedSubscriptions,
                 apiCalls, apiValuesBySubscriptionId, providerStates, runs>>

\* Promise.all(providerPromises) resolves, the states that are not nil are
\* kept and submitTransactions starts the closure of each of them.
ProviderStatesFiltered ==
  /\ pc = "providerStates.initialize"
  /\ \A p \in 1..Len(providerInits) : providerInits[p].settled
  /\ providerStates' = ValidProviderStates(providerInits)
  /\ runs' = [i \in 1..Len(providerStates') |-> [pc |-> "started"]]
  /\ pc' = "providerStates.submitTransactions"
  /\ UNCHANGED <<entry, providerCall, rrp, beaconUpdate, protoPsp, groupedSubscriptions,
                 apiCalls, apiValuesBySubscriptionId, providerInits>>

\* The closure of provider state i destructures the state and evaluates the
\* arguments of checkSubscriptionsConditions: contracts['DapiServer'] throws
\* a TypeError when the state has no contracts, and the closure rejects;
\* otherwise the closure goes through its subscriptions and resolves.
ProviderClosureSettles(i) ==
  /\ pc = "providerStates.submitTransactions"
  /\ i \in 1..Len(runs)
  /\ runs[i].pc = "started"
  /\ runs' = [runs EXCEPT ![i].pc =
                IF "currentBlock" \in DOMAIN providerStates[i]
                THEN "resolved" ELSE "rejected"]
  /\ UNCHANGED <<entry, providerCall, rrp, beaconUpdate, protoPsp, pc, groupedSubscriptions,
                 apiCalls, apiValuesBySubscriptionId, providerInits, providerStates>>

\* await Promise.all(providerPromises) of submitTransactions: it rejects with
\* the first closure that rejects and updateBeacon and the handler throw, it
\* resolves when every closure resolved and the handler answers.
SubmitTransactionsSettles ==
  /\ pc = "providerStates.submitTransactions"
  /\ IF \E i \in 1..Len(runs) : runs[i].pc = "rejected"
     THEN pc' = "providerStates.thrown"
     ELSE /\ \A i \in 1..Len(runs) : runs[i].pc = "resolved"
          /\ pc' = "providerStates.returned"
  /\ UNCHANGED <<entry, providerCall, rrp, beaconUpdate, protoPsp, groupedSubscriptions,
                 apiCalls, apiValuesBySubscriptionId, providerInits, providerStates, runs>>

ProviderStatesNext ==
  \/ \E p \in 1..2 : ProviderPromiseSettles(p)
  \/ ProviderStatesFiltered
  \/ \E i \in 1..2 : ProviderClosureSettles(i)
  \/ SubmitTransactionsSettles

ProviderStatesSpec == InitProviderStates /\ [][ProviderStatesNext]_vars

Next ==
  \/ MergeChain
  \/ FilterEvmChains
  \/ ProcessProviders
  \/ CheckAirnodeAddress
  \/ ReadApiValues
  \/ ReadBlockNumber
  \/ FetchSubscriptions
  \/ \E l \in 1..2 : FetchTransactionCount(l)
  \/ \E l \in 1..2 : SkipTemplateNotFound(l)
  \/ \E l \in 1..2 : SkipApiCallFailed(l)
  \/ \E l \in 1..2 : SkipApiValueMissing(l)
  \/ \E l \in 1..2 : SkipConditionsDecodeFailed(l)
  \/ \E l \in 1..2 : ThrowOnConditionCallFailed(l)
  \/ \E l \in 1..2 : SkipConditionsNotMet(l)
  \/ \E l \in 1..2 : SkipGasTargetFailed(l)
  \/ \E l \in 1..2 : SendFulfillPspBeaconUpdate(l)
  \/ \E l \in 1..2 : FulfillPspBeaconUpdateSettles(l)
  \/ \E l \in 1..2 : SponsorLoopReturns(l)
  \/ BeaconUpdateReturn
  \/ BeaconUpdateThrows
  \/ InitializeProviderReturns
  \/ RrpApiCalls
  \/ RrpGetBlockNumber
  \/ \E l \in 1..2 : RrpTransactionCount(l)
  \/ \E l \in 1..2 : SkipOtherChain(l)
  \/ \E l \in 1..2 : ThrowOnMissingEntry(l)
  \/ \E l \in 1..2 : SkipMissingApiValue(l)
  \/ \E l \in 1..2 : SkipInvalidDeviationPercentage(l)
  \/ \E l \in 1..2 : SkipReadBeaconFailed(l)
  \/ \E l \in 1..2 : SkipUpToDate(l)
  \/ \E l \in 1..2 : SkipWithinThreshold(l)
  \/ \E l \in 1..2 : SkipEventsFailed(l)
  \/ \E l \in 1..2 : SkipAwaitingFulfillment(l)
  \/ \E l \in 1..2 : SkipGasPriceFailed(l)
  \/ \E l \in 1..2 : SubmitRequestBeaconUpdate(l)
  \/ \E l \in 1..2 : RequestBeaconUpdateSettles(l)
  \/ \E l \in 1..2 : LoopReturns(l)
  \/ RrpHandlerReturn
  \/ RrpHandlerThrows
  \/ InitializeState
  \/ \E g \in 1..MaxTriggers : AttemptApiCall(g)
  \/ ExecuteApiCallsReturn
  \/ \E p \in 1..2 : InitializeProviderSettles(p)
  \/ InitializeProvidersReturn
  \/ \E i \in 1..2 : CheckSubscriptionsConditions(i)
  \/ \E i \in 1..2 : GroupSubscriptionsBySponsorWallet(i)
  \/ \E i \in 1..2, w \in 1..2 : SubmitTransaction(i, w)
  \/ HandlerReturn
  \/ \E p \in 1..2 : ProviderPromiseSettles(p)
  \/ ProviderStatesFiltered
  \/ \E i \in 1..2 : ProviderClosureSettles(i)
  \/ SubmitTransactionsSettles
  \/ BlockMined
  \/ BlockNumberAges
  \/ EventsGetBlockNumber
  \/ QueryRequestedBeaconUpdate
  \/ QueryUpdatedBeacon

\* Every handler and initializeProvider: the specification of the claims
\* that speak of both handlers.
Spec == Init /\ [][Next]_vars

\* The phased PSP handler alone.
PspInit == InitPspHandler \/ InitPspResponses

PspNext ==
  \/ InitializeState
  \/ \E g \in 1..MaxTriggers : AttemptApiCall(g)
  \/ ExecuteApiCallsReturn
  \/ \E p \in 1..2 : InitializeProviderSettles(p)
  \/ InitializeProvidersReturn
  \/ \E i \in 1..2 : CheckSubscriptionsConditions(i)
  \/ \E i \in 1..2 : GroupSubscriptionsBySponsorWallet(i)
  \/ \E i \in 1..2, w \in 1..2 : SubmitTransaction(i, w)
  \/ HandlerReturn

PspSpec == PspInit /\ [][PspNext]_vars

\* The RRP handler alone.
RrpNext ==
  \/ RrpApiCalls
  \/ RrpGetBlockNumber
  \/ \E l \in 1..2 : RrpTransactionCount(l)
  \/ \E l \in 1..2 : SkipOtherChain(l)
  \/ \E l \in 1..2 : ThrowOnMissingEntry(l)
  \/ \E l \in 1..2 : SkipMissingApiValue(l)
  \/ \E l \in 1..2 : SkipInvalidDeviationPercentage(l)
  \/ \E l \in 1..2 : SkipReadBeaconFailed(l)
  \/ \E l \in 1..2 : SkipUpToDate(l)
  \/ \E l \in 1..2 : SkipWithinThreshold(l)
  \/ \E l \in 1..2 : SkipEventsFailed(l)
  \/ \E l \in 1..2 : SkipAwaitingFulfillment(l)
  \/ \E l \in 1..2 : SkipGasPriceFailed(l)
  \/ \E l \in 1..2 : SubmitRequestBeaconUpdate(l)
  \/ \E l \in 1..2 : RequestBeaconUpdateSettles(l)
  \/ \E l \in 1..2 : LoopReturns(l)
  \/ RrpHandlerReturn
  \/ RrpHandlerThrows

RrpSpec == InitRrpHandler /\ [][RrpNext]_vars

\* rrp.ts with the jobs of DeviationJobs.
DeviationSpec == InitDeviationJobs /\ [][RrpNext]_vars

\* psp.ts: the closure of one provider of beaconUpdate.
BeaconUpdateSpec == InitBeaconUpdate /\ [][BeaconUpdateNext]_vars

\* The PSP handlers: the phased one and psp.ts's beaconUpdate.
PspHandlersSpec ==
  (PspInit \/ InitBeaconUpdate) /\ [][PspNext \/ BeaconUpdateNext]_vars

\* The handlers from their loaded configs to their first calls: psp.ts's
\* merge of the chains and rrp.ts's check of the airnode address.
ConfigNext ==
  \/ MergeChain
  \/ FilterEvmChains
  \/ ProcessProviders
  \/ CheckAirnodeAddress
  \/ ReadApiValues
  \/ ReadBlockNumber

ConfigSpec == (InitMergeConfigs \/ InitAirnodeAddress) /\ [][ConfigNext]_vars

\* One call of initializeProvider.
InitializeProviderSpec == InitInitializeProvider /\ [][InitializeProviderReturns]_vars

\* ------------------------------------------------------------------ claims

PspEntry == entry \in {"psp.handler", "psp.responses"}

\* The wallets of every provider closure, each with its provider state.
RunWallets ==
  UNION { { [i |-> i, w |-> w] : w \in 1..Len(runs[i].wallets) } :
          i \in 1..Len(runs) }

WalletAt(iw) == runs[iw.i].wallets[iw.w]

\* The positions of chainSubscriptions of provider state i whose condition
\* check answered true and whose sponsor is `sponsor`, in list order.
PassingPositions(i, sponsor) ==
  SelectSeq([p \in 1..Len(ChainSubscriptionsOf(i)) |-> p],
            LAMBDA p : runs[i].isValid[p] /\ ChainSubscriptionsOf(i)[p].sponsor = sponsor)

\* C1: for every provider and sponsor, the subscriptions that are assigned a
\* nonce are the sponsor's condition-passing subscriptions in list order, the
\* k-th of them (from 0) has nonce n + k, where n is the transaction count of
\* the derived sponsor wallet, and each transaction sent carries that nonce.
C1_NoncesConsecutive ==
  \A iw \in RunWallets :
    LET wallet == WalletAt(iw)
        passing == PassingPositions(iw.i, wallet.sponsor)
        n == TransactionCountAt(providerStates[iw.i].chainId,
                                SponsorWalletAddress(wallet.sponsor, "2"))
    IN  /\ wallet.transactionCount = n
        /\ Len(wallet.subscriptions) = Len(passing)
        /\ \A k \in 1..Len(wallet.subscriptions) :
             /\ wallet.subscriptions[k].entry = passing[k]
             /\ wallet.subscriptions[k].id = ChainSubscriptionsOf(iw.i)[passing[k]].id
             /\ wallet.subscriptions[k].nonce = n + (k - 1)
        /\ \A k \in 1..Len(wallet.txs) :
             /\ wallet.txs[k].entry = passing[k]
             /\ wallet.txs[k].nonce = n + (k - 1)

\* A sponsor wallet with a non-zero transaction count has sent the
\* transactions of two subscriptions.
C1_Witness ==
  \E iw \in RunWallets :
    /\ WalletAt(iw).transactionCount = 5
    /\ Len(WalletAt(iw).txs) = 2

\* One step of a keeperSponsor closure or of a provider closure, seen from
\* the nonces.
NonceStep ==
  /\ entry = "rrp.handler" =>
       \A l \in 1..Len(rrp.loops) :
         LET before == rrp.loops[l]
             after == rrp'.loops[l]
         IN  /\ before.status \in {"running", "submitting"} =>
                  IF before.status = "running" /\ after.status = "submitting"
                  THEN /\ after.nextNonce = before.nextNonce + 1
                       /\ Len(after.txs) = Len(before.txs) + 1
                       /\ after.txs[Len(after.txs)].nonce = before.nextNonce
                  ELSE /\ after.nextNonce = before.nextNonce
                       /\ Len(after.txs) = Len(before.txs)
             /\ after.transactionCount # << >> =>
                  after.nextNonce = after.transactionCount[1] + Len(after.txs)
  /\ PspEntry =>
       \A i \in 1..Len(runs') :
         \A w \in 1..Len(runs'[i].wallets) :
           \A k \in 1..Len(runs'[i].wallets[w].subscriptions) :
             runs'[i].isValid[runs'[i].wallets[w].subscriptions[k].entry]

\* C2: in the RRP handler the nextNonce of a keeperSponsor grows by one in
\* the step that attempts requestBeaconUpdate, which takes the old value as
\* its nonce, and in no other step: not when a job is skipped, not when the
\* attempt settles, with success or with an error; nextNonce is always the
\* fetched transaction count plus the number of attempts.  In the PSP
\* handler every subscription that is assigned a nonce passed its condition
\* check.
C2_NonceOnlyBySubmission == [][NonceStep]_vars

\* A keeperSponsor closure has skipped its first job and attempted the
\* second, the attempt failed, and nextNonce is one past the fetched count.
C2_Witness ==
  /\ entry = "rrp.handler"
  /\ \E l \in 1..Len(rrp.loops) :
       /\ rrp.loops[l].status = "done"
       /\ rrp.loops[l].idx = 2
       /\ rrp.loops[l].transactionCount = <<7>>
       /\ rrp.loops[l].nextNonce = 8
       /\ Len(rrp.loops[l].txs) = 1
       /\ rrp.loops[l].txs[1].job = 2
       /\ rrp.loops[l].txs[1].nonce = 7
       /\ rrp.loops[l].txs[1].settled = <<FALSE>>

\* C3: a subscription of chainSubscriptions whose condition check answered
\* false on a provider is assigned no nonce and has no transaction sent for it
\* by that provider; when every check of its id answered false on the
\* provider, no transaction of the provider carries its id.
C3_FalseConditionNotSubmitted ==
  \A i \in 1..Len(runs) :
    \A p \in 1..Len(runs[i].isValid) :
      ~runs[i].isValid[p] =>
        /\ \A w \in 1..Len(runs[i].wallets) :
             /\ \A k \in 1..Len(runs[i].wallets[w].subscriptions) :
                  runs[i].wallets[w].subscriptions[k].entry # p
             /\ \A k \in 1..Len(runs[i].wallets[w].txs) :
                  runs[i].wallets[w].txs[k].entry # p
        /\ (\A q \in 1..Len(runs[i].isValid) :
              ChainSubscriptionsOf(i)[q].id = ChainSubscriptionsOf(i)[p].id
                => ~runs[i].isValid[q])
           => \A w \in 1..Len(runs[i].wallets) :
                \A k \in 1..Len(runs[i].wallets[w].txs) :
                  runs[i].wallets[w].txs[k].id # ChainSubscriptionsOf(i)[p].id

\* A provider has returned with one subscription's check false and the
\* transaction of another subscription sent.
C3_Witness ==
  /\ pc = "returned"
  /\ \E i \in 1..Len(runs) :
       /\ \E p \in 1..Len(runs[i].isValid) : ~runs[i].isValid[p]
       /\ \E w \in 1..Len(runs[i].wallets) : Len(runs[i].wallets[w].txs) = 1

\* The ids of a trigger list that initializeState skips: absent from
\* config.subscriptions, or declared under an id that is not the hash.
\* The job at position k of the trigger list has an API value and readBeacon
\* answers that value.
UpToDate(k) ==
  LET beaconId == BeaconIdOf(rrp.jobs[k])
  IN  IF beaconId \notin DOMAIN rrp.apiValues THEN FALSE
      ELSE IF rrp.apiValues[beaconId] = << >> THEN FALSE
      ELSE rrp.apiValues[beaconId][1] = rrp.beacons[beaconId]

\* C4: in the RRP handler no requestBeaconUpdate is attempted for a job whose
\* API value is the beacon's on-chain value, and the nonces taken by a
\* keeperSponsor closure are no more than its jobs that are not up to date.
C4_UpToDateBeaconNotUpdated ==
  entry = "rrp.handler" =>
    \A l \in 1..Len(rrp.loops) :
      LET loop == rrp.loops[l]
      IN  /\ \A k \in 1..Len(loop.txs) : ~UpToDate(loop.txs[k].job)
          /\ loop.transactionCount # << >> =>
               loop.nextNonce - loop.transactionCount[1]
                 <= Cardinality({ p \in 1..Len(loop.jobs) : ~UpToDate(loop.jobs[p]) })

\* A keeperSponsor closure went past a job whose API value is the beacon's
\* value, then updated the beacon of its second job with the fetched count
\* as the nonce.
C4_Witness ==
  /\ entry = "rrp.handler"
  /\ \E l \in 1..Len(rrp.loops) :
       /\ rrp.loops[l].status = "done"
       /\ Len(rrp.loops[l].jobs) = 2
       /\ ForCurrentChain(rrp.jobs[rrp.loops[l].jobs[1]], RrpChainId)
       /\ UpToDate(rrp.loops[l].jobs[1])
       /\ rrp.loops[l].nextNonce = 8
       /\ Len(rrp.loops[l].txs) = 1
       /\ rrp.loops[l].txs[1].job = 2
       /\ rrp.loops[l].txs[1].nonce = 7
       /\ rrp.loops[l].txs[1].settled = <<TRUE>>

HashedSubscriptionIds ==
  { id \in DOMAIN ConfigSubscriptions :
      id = ExpectedSubscriptionId(ConfigSubscriptions[id]) }

InvalidId(id) == id \notin HashedSubscriptionIds

\* Every transaction sent by any provider.
AllTransactions ==
  UNION { Range(WalletAt(iw).txs) : iw \in RunWallets }

\* C5: no transaction is sent for a listed id that is absent or mismatched,
\* and the groups the cycle works on are the groups of the same list with
\* those ids removed.  groupedSubscriptions is written by initializeState
\* alone: it is compared in every state of a cycle that runs initializeState,
\* and where a cycle drawn at its responses starts and returns.
C5_InvalidSubscriptionIgnored ==
  (PspEntry /\ pc # "initializeState") =>
    /\ \A tx \in AllTransactions : ~InvalidId(tx.id)
    /\ (entry = "psp.handler" \/ pc \in {"executeApiCalls", "returned"}) =>
         groupedSubscriptions =
           InitializeStateGroups(
             ConfigOf(SelectSeq(protoPsp, LAMBDA id : ~InvalidId(id))))

\* A cycle that lists the mismatched id before a valid subscription has
\* returned with the valid subscription's transaction sent.
C5_Witness ==
  /\ pc = "returned"
  /\ Len(protoPsp) = 2
  /\ protoPsp[1] = MismatchedSubscriptionId
  /\ \E tx \in AllTransactions : tx.id = protoPsp[2]

\* The template ids and endpoint ids of the config that are the hash of
\* their entry.
HashedTemplateIds ==
  { id \in DOMAIN ConfigTemplates : id = ExpectedTemplateId(ConfigTemplates[id]) }

HashedEndpointIds ==
  { id \in DOMAIN ConfigEndpoints : id = ExpectedEndpointId(ConfigEndpoints[id]) }

\* The nine hashed fields of s are those of the config's entry under its id.
FieldsOfConfigEntry(s) ==
  /\ s.id \in DOMAIN ConfigSubscriptions
  /\ WithId(ConfigSubscriptions[s.id], s.id) = WithId(s, s.id)

\* The subscriptions of every group.
GroupedSubscriptionIds ==
  { s.id : s \in Range(AllSubscriptions(groupedSubscriptions)) }

\* C6: every grouped subscription carries the hash of its nine fields as id
\* and the id of its group's template; every group's template id and
\* endpoint id are keys of the config whose entries hash to them; every key
\* of apiValuesBySubscriptionId and every transaction's id is the id of a
\* grouped subscription.
C6_OnlyVerifiedSubscriptions ==
  PspEntry =>
    /\ \A g \in 1..Len(groupedSubscriptions) :
         LET group == groupedSubscriptions[g] IN
           /\ group.template.id \in HashedTemplateIds
           /\ group.template.endpointId = group.endpoint.id
           /\ group.endpoint.id \in HashedEndpointIds
           /\ \A k \in 1..Len(group.subscriptions) :
                /\ group.subscriptions[k].id \in HashedSubscriptionIds
                /\ FieldsOfConfigEntry(group.subscriptions[k])
                /\ group.subscriptions[k].templateId = group.template.id
    /\ DOMAIN apiValuesBySubscriptionId \subseteq GroupedSubscriptionIds
    /\ \A tx \in AllTransactions : tx.id \in GroupedSubscriptionIds

\* A cycle that lists a subscription whose template names a mismatched
\* endpoint has an API value and a transaction for another subscription.
C6_Witness ==
  /\ \E k \in 1..Len(protoPsp) :
       /\ protoPsp[k] \in DOMAIN ConfigSubscriptions
       /\ ConfigSubscriptions[protoPsp[k]].templateId = TemplateIdWrongEndpoint
  /\ DOMAIN apiValuesBySubscriptionId # {}
  /\ AllTransactions # {}

\* The closure of provider state i awaits a call that is about to resolve.
RunCanStep(i) ==
  \/ AwaitsConditions(i)
  \/ AwaitsTransactionCounts(i)
  \/ \E w \in 1..Len(runs[i].wallets) : HasNextSubscription(i, w)

\* C7: the provider states are those of the providers whose initialization
\* answered a state, in order, a failed one is not among them; each has its
\* closure, which can always step until it is done; the handler never throws
\* and can return once every closure is done.
C7_FailedProviderIsolated ==
  /\ PspEntry => pc # "thrown"
  /\ (PspEntry /\ pc \in {"submitTransactions", "returned"}) =>
    /\ \A p \in 1..Len(providerInits) :
         Cardinality({ i \in 1..Len(providerStates) :
                        providerStates[i].providerName
                          = EvmProviders(config)[p].providerName })
           = IF providerInits[p].data = << >> THEN 0 ELSE 1
    /\ \A i \in 1..Len(providerStates) : \A j \in 1..Len(providerStates) :
         i < j =>
           \E p \in 1..Len(providerInits) : \E q \in 1..Len(providerInits) :
             /\ p < q
             /\ providerInits[p].data = <<providerStates[i]>>
             /\ providerInits[q].data = <<providerStates[j]>>
    /\ Len(runs) = Len(providerStates)
    /\ pc = "submitTransactions" =>
         /\ \A i \in 1..Len(runs) : ~ProviderDone(i) => RunCanStep(i)
         /\ (\A i \in 1..Len(runs) : ProviderDone(i)) => ENABLED HandlerReturn

\* The first provider failed to initialize and the handler has returned
\* with a transaction sent through the second.
C7_Witness ==
  /\ pc = "returned"
  /\ Len(providerInits) = 2
  /\ providerInits[1].data = << >>
  /\ Len(providerStates) = 1
  /\ providerStates[1].providerName = "backup"
  /\ AllTransactions # {}

\* The call of initializeProvider has returned.
ProviderCallReturned == entry = "initializeProvider" /\ pc = "returned"

ProviderCallResult == providerCall.result[1]

\* The fetch the gas target of the call's chain rests on succeeded.
GasTargetFetched ==
  IF providerCall.chain.options.txType = "eip1559"
  THEN providerCall.rpc.block # << >>
  ELSE providerCall.rpc.gasPrice # << >>

HasErrorLog(logs, message) ==
  \E k \in 1..Len(logs) : logs[k] = [level |-> "ERROR", message |-> message]

\* C8: initializeProvider answers a provider state exactly when the block
\* number and the gas target are both fetched; when the block number fails
\* it answers null with the ERROR log 'Failed to fetch the blockNumber', when
\* the gas target fails null with the ERROR log 'Failed to fetch gas
\* price'; a state carries the fetched block number and the gas target
\* fetched for the chain's txType.
C8_ProviderStateIffBothFetched ==
  ProviderCallReturned =>
    LET rpc == providerCall.rpc
        result == ProviderCallResult
    IN  /\ (result.data # << >>) <=> (rpc.blockNumber # << >> /\ GasTargetFetched)
        /\ rpc.blockNumber = << >> =>
             HasErrorLog(result.logs, "Failed to fetch the blockNumber")
        /\ (rpc.blockNumber # << >> /\ ~GasTargetFetched) =>
             HasErrorLog(result.logs, "Failed to fetch gas price")
        /\ result.data # << >> =>
             /\ result.data[1].currentBlock = rpc.blockNumber[1]
             /\ ~HasErrorLog(result.logs, "Failed to fetch the blockNumber")
             /\ ~HasErrorLog(result.logs, "Failed to fetch gas price")
             /\ IF providerCall.chain.options.txType = "eip1559"
                THEN /\ DOMAIN result.data[1].gasTarget
                          = {"maxPriorityFeePerGas", "maxFeePerGas"}
                     /\ result.data[1].gasTarget.maxFeePerGas
                          - result.data[1].gasTarget.maxPriorityFeePerGas
                          = rpc.block[1].baseFeePerGas
                            * providerCall.chain.options.baseFeeMultiplier
                ELSE result.data[1].gasTarget = [gasPrice |-> rpc.gasPrice[1]]

\* A call whose block number was fetched and whose gas target failed has
\* returned.
C8_Witness ==
  /\ ProviderCallReturned
  /\ providerCall.rpc.blockNumber = <<101>>
  /\ ~GasTargetFetched
  /\ ProviderCallResult.data = << >>

\* C9: the first provider method initializeProvider invokes is
\* getBlockNumber; getBlock and getGasPrice are invoked after it only, and
\* not at all when the block number cannot be fetched.
C9_BlockNumberBeforeGasTarget ==
  ProviderCallReturned =>
    LET calls == ProviderCallResult.calls IN
      /\ calls # << >>
      /\ calls[1] = "getBlockNumber"
      /\ \A k \in 2..Len(calls) : calls[k] \in {"getBlock", "getGasPrice"}
      /\ providerCall.rpc.blockNumber = << >> => calls = <<"getBlockNumber">>
      /\ providerCall.rpc.blockNumber # << >> => Len(calls) = 2

\* A call whose block number failed while the block and the gas price
\* could have been fetched has returned.
C9_Witness ==
  /\ ProviderCallReturned
  /\ providerCall.rpc.blockNumber = << >>
  /\ providerCall.rpc.block # << >>
  /\ providerCall.rpc.gasPrice # << >>

\* priorityFee in wei.
PriorityFeeInWei(fee) ==
  CASE fee.unit = "wei" -> fee.value
    [] fee.unit = "kwei" -> fee.value * 1000
    [] fee.unit = "gwei" -> fee.value * 1000000000

\* C10: on an eip1559 chain the gas target of the answered state is
\* maxPriorityFeePerGas = priorityFee in wei and maxFeePerGas =
\* baseFeePerGas of the fetched block * baseFeeMultiplier +
\* maxPriorityFeePerGas, and getGasPrice is not invoked.
C10_Eip1559GasTarget ==
  (ProviderCallReturned /\ providerCall.chain.options.txType = "eip1559") =>
    LET options == providerCall.chain.options
        result == ProviderCallResult
    IN  /\ \A k \in 1..Len(result.calls) : result.calls[k] # "getGasPrice"
        /\ result.data # << >> =>
             result.data[1].gasTarget =
               [maxPriorityFeePerGas |-> PriorityFeeInWei(options.priorityFee),
                maxFeePerGas |->
                  providerCall.rpc.block[1].baseFeePerGas * options.baseFeeMultiplier
                  + PriorityFeeInWei(options.priorityFee)]

\* An eip1559 call with a priority fee of 2 gwei, a multiplier of 2 and a
\* base fee of 1000 has answered a state while the legacy gas price could
\* not be fetched.
C10_Witness ==
  /\ ProviderCallReturned
  /\ providerCall.chain.options =
       [txType |-> "eip1559", baseFeeMultiplier |-> 2,
        priorityFee |-> [value |-> 2, unit |-> "gwei"]]
  /\ providerCall.rpc.block = <<[baseFeePerGas |-> 1000]>>
  /\ providerCall.rpc.gasPrice = << >>
  /\ ProviderCallResult.data # << >>
  /\ ProviderCallResult.data[1].gasTarget.maxFeePerGas = 2000002000

\* The PSP handler awaits a call that is about to settle, or a Promise.all
\* whose promises have all settled.
HandlerCanStep ==
  \/ pc = "initializeState"
  \/ /\ pc = "executeApiCalls"
     /\ \A g \in 1..Len(apiCalls) :
          apiCalls[g].response = << >> => apiCalls[g].attempts < ApiMaxAttempts
  \/ /\ pc = "initializeProviders"
     /\ Len(providerInits) = Len(EvmProviders(config))
  \/ /\ pc = "submitTransactions"
     /\ \A i \in 1..Len(runs) : ~ProviderDone(i) => RunCanStep(i)

SequentialLoops ==
  IF entry = "psp.beaconUpdate" THEN beaconUpdate.loops
  ELSE IF entry = "rrp.handler" THEN rrp.loops
  ELSE << >>

\* The submissions of a closure that have not settled.
InFlight(loop) == { k \in 1..Len(loop.txs) : loop.txs[k].settled = << >> }

\* C12: a sponsor wallet's closure has at most one submission in flight, its
\* last one, and exactly while the closure awaits it: a submission is sent
\* only when every earlier one of the closure has resolved or failed.
C12_OneSubmissionInFlight ==
  \A l \in 1..Len(SequentialLoops) :
    LET loop == SequentialLoops[l]
    IN  /\ InFlight(loop) \subseteq {Len(loop.txs)}
        /\ InFlight(loop) # {} <=> loop.status = "submitting"

\* In psp.ts a sponsor wallet's first submission has failed and its second
\* is in flight.
C12_Witness ==
  /\ entry = "psp.beaconUpdate"
  /\ \E l \in 1..Len(beaconUpdate.loops) :
       /\ beaconUpdate.loops[l].status = "submitting"
       /\ Len(beaconUpdate.loops[l].txs) = 2
       /\ beaconUpdate.loops[l].txs[1].settled = <<FALSE>>

\* C13: a sponsor wallet's transactions are sent in the order of its list
\* after grouping, which is the order of growing nonces.  Phased handler: the
\* k-th transaction of a wallet is that of its k-th subscription, and both
\* the list positions and the nonces of the wallet's subscriptions grow.
\* psp.ts: the transactions of a sponsor closure follow the sponsor's list,
\* and every nonce sent for an earlier one is below every nonce sent for a
\* later one.
C13_ListOrderIsNonceOrder ==
  /\ \A iw \in RunWallets :
       LET wallet == WalletAt(iw)
       IN  /\ Len(wallet.txs) <= Len(wallet.subscriptions)
           /\ \A k \in 1..Len(wallet.txs) :
                /\ wallet.txs[k].id = wallet.subscriptions[k].id
                /\ wallet.txs[k].entry = wallet.subscriptions[k].entry
                /\ wallet.txs[k].nonce = wallet.subscriptions[k].nonce
           /\ \A j \in 1..Len(wallet.subscriptions) : \A k \in 1..(j - 1) :
                /\ wallet.subscriptions[k].entry < wallet.subscriptions[j].entry
                /\ wallet.subscriptions[k].nonce < wallet.subscriptions[j].nonce
  /\ entry = "psp.beaconUpdate" =>
       \A l \in 1..Len(beaconUpdate.loops) :
         LET loop == beaconUpdate.loops[l]
         IN  /\ \A k \in 1..Len(loop.txs) :
                  /\ loop.txs[k].position <= Len(loop.subscriptions)
                  /\ loop.txs[k].id = loop.subscriptions[loop.txs[k].position].id
             /\ \A j \in 1..Len(loop.txs) : \A k \in 1..(j - 1) :
                  /\ loop.txs[k].position < loop.txs[j].position
                  /\ \A a \in Range(loop.txs[k].nonces) :
                       \A b \in Range(loop.txs[j].nonces) : a < b

\* A sponsor closure of psp.ts has settled two transactions, the first of
\* them at its second attempt.
C13_Witness ==
  /\ entry = "psp.beaconUpdate"
  /\ \E l \in 1..Len(beaconUpdate.loops) :
       LET txs == beaconUpdate.loops[l].txs
       IN  /\ Len(txs) = 2
           /\ Len(txs[1].nonces) = 2
           /\ txs[1].settled = <<TRUE>>
           /\ txs[2].settled # << >>

\* One step of the phased handler, seen from its phases.
PhaseStep ==
  /\ apiCalls' # apiCalls =>
       /\ providerInits = << >> /\ runs = << >>
       /\ apiCalls' # << >> => providerInits' = << >>
  /\ providerInits' # providerInits =>
       /\ \A g \in 1..Len(apiCalls) : apiCalls[g].response # << >>
       /\ apiCalls' = << >>
       /\ runs = << >> /\ runs' = << >>
  /\ runs' # runs =>
       /\ apiCalls = << >>
       /\ providerInits # << >>
       /\ \A p \in 1..Len(providerInits) : providerInits[p].settled
       /\ providerInits' = providerInits

\* C14: the phases of updateBeacon are barriers.  A step that starts or
\* settles an initializeProvider finds every API call settled, and no API
\* call is attempted once a provider initialization has started; a step of
\* a condition check, a transaction-count fetch or a submission finds every
\* initializeProvider settled.
C14_PhaseBarriers == [][PhaseStep]_vars

\* Both providers were initialized, one of them without success, and the
\* closure of the other has gone past its condition checks.
C14_Witness ==
  /\ PspEntry
  /\ pc = "submitTransactions"
  /\ Len(providerInits) = 2
  /\ \E p \in 1..2 : providerInits[p].data = << >>
  /\ \E i \in 1..Len(runs) : runs[i].pc = "transactionCounts"

\* The ids of the subscriptions of a group.
GroupIds(group) ==
  { group.subscriptions[k].id : k \in 1..Len(group.subscriptions) }

\* One step of executeApiCalls, seen from one group at a time.
ApiIsolationStep ==
  (PspEntry /\ pc = "executeApiCalls") =>
    IF pc' = "executeApiCalls"
    THEN \A g \in 1..Len(apiCalls) : \A h \in 1..Len(apiCalls) :
           (g # h /\ apiCalls'[g] # apiCalls[g]) => apiCalls'[h] = apiCalls[h]
    ELSE \A g \in 1..Len(groupedSubscriptions) :
           LET alone == ReduceApiValues(<<groupedSubscriptions[g]>>,
                                        <<apiCalls[g].response[1]>>, EmptyMap)
           IN  \A id \in GroupIds(groupedSubscriptions[g]) :
                 IF id \in DOMAIN alone
                 THEN /\ id \in DOMAIN apiValuesBySubscriptionId'
                      /\ apiValuesBySubscriptionId'[id] = alone[id]
                 ELSE id \notin DOMAIN apiValuesBySubscriptionId'

\* C15: in executeApiCalls the call of one group neither holds up nor
\* changes the call of another, and what the API phase stores for the
\* subscriptions of a group is what that group's own response gives,
\* whatever the other groups' calls ended in (an error or a timeout after
\* the retry, or a null value).
C15_ApiFailureIsolated == [][ApiIsolationStep]_vars

\* The API phase is over: the call of one group failed and the
\* subscriptions of another group have their value.
C15_Witness ==
  /\ PspEntry
  /\ pc = "initializeProviders"
  /\ Len(groupedSubscriptions) = 2
  /\ \E g \in 1..2 : \E h \in 1..2 :
       /\ GroupIds(groupedSubscriptions[g]) \cap DOMAIN apiValuesBySubscriptionId = {}
       /\ GroupIds(groupedSubscriptions[h]) \subseteq DOMAIN apiValuesBySubscriptionId

\* The response of group g carries a value.
HasApiValue(g) ==
  IF apiCalls[g].response[1].success
  THEN apiCalls[g].response[1].data.apiValue # << >>
  ELSE FALSE

\* The templateIds of the listed subscriptions that pass initializeState:
\* the subscription, its template and the template's endpoint are entries of
\* the config under the hash of their fields.
ValidatedTemplateIds ==
  { t \in { ConfigSubscriptions[id].templateId :
              id \in Range(protoPsp) \cap HashedSubscriptionIds } :
      IF t \in HashedTemplateIds
      THEN ConfigTemplates[t].endpointId \in HashedEndpointIds
      ELSE FALSE }

\* One step of the phased handler, seen from the API work units.
ApiWorkUnitStep ==
  (PspEntry /\ pc = "executeApiCalls") =>
    /\ Len(apiCalls) = Len(groupedSubscriptions)
    /\ { groupedSubscriptions[g].template.id : g \in 1..Len(groupedSubscriptions) }
         = ValidatedTemplateIds
    /\ \A g \in 1..Len(groupedSubscriptions) : \A h \in 1..Len(groupedSubscriptions) :
         g # h => groupedSubscriptions[g].template.id # groupedSubscriptions[h].template.id
    /\ \A g \in 1..Len(groupedSubscriptions) :
         \A k \in 1..Len(groupedSubscriptions[g].subscriptions) :
           groupedSubscriptions[g].subscriptions[k].templateId
             = groupedSubscriptions[g].template.id
    /\ pc' # "executeApiCalls" =>
         /\ \A g \in 1..Len(groupedSubscriptions) :
              \A id \in GroupIds(groupedSubscriptions[g]) :
                IF HasApiValue(g)
                THEN /\ id \in DOMAIN apiValuesBySubscriptionId'
                     /\ apiValuesBySubscriptionId'[id]
                          = apiCalls[g].response[1].data.apiValue[1]
                ELSE id \notin DOMAIN apiValuesBySubscriptionId'
         /\ DOMAIN apiValuesBySubscriptionId' \subseteq
              UNION { GroupIds(groupedSubscriptions[g]) :
                      g \in 1..Len(groupedSubscriptions) }

\* C16: executeApiCalls makes one call per group, the groups are those of
\* the validated templateIds of the cycle's list and no two groups have the
\* same templateId, each group holding subscriptions of its template only;
\* when the API phase ends, every subscription of a group whose call gave a
\* value maps to that value, no subscription of a group whose call failed
\* or gave null has an entry, and nothing else has one.
C16_OneCallPerTemplate == [][ApiWorkUnitStep]_vars

\* Two subscriptions of two sponsors share a template, and after the API
\* phase both map to the one value of their group.
C16_Witness ==
  /\ PspEntry
  /\ pc = "initializeProviders"
  /\ \E g \in 1..Len(groupedSubscriptions) :
       /\ Cardinality(GroupIds(groupedSubscriptions[g])) = 2
       /\ \A id \in GroupIds(groupedSubscriptions[g]) :
            /\ id \in DOMAIN apiValuesBySubscriptionId
            /\ apiValuesBySubscriptionId[id] = AdapterValue(groupedSubscriptions[g].template)

\* The for loop of keeperSponsor closure l is at a job whose beaconId has
\* no API value: no entry, or a null one.
AtJobWithoutApiValue(l) ==
  /\ rrp.loops[l].status = "running"
  /\ rrp.loops[l].idx < Len(rrp.loops[l].jobs)
  /\ IF BeaconIdOf(CurrentJob(l)) \in DOMAIN rrp.apiValues
     THEN CurrentApiValue(l) = << >>
     ELSE TRUE

\* One step of either handler, seen from the API values.
NoApiValueStep ==
  /\ PspEntry =>
       \A i \in 1..Len(runs') :
         /\ \A k \in 1..Len(runs'[i].chainSubscriptions) :
              runs'[i].chainSubscriptions[k].id \in DOMAIN apiValuesBySubscriptionId'
         /\ \A w \in 1..Len(runs'[i].wallets) :
              /\ \A k \in 1..Len(runs'[i].wallets[w].subscriptions) :
                   runs'[i].wallets[w].subscriptions[k].id
                     \in DOMAIN apiValuesBySubscriptionId'
              /\ \A k \in 1..Len(runs'[i].wallets[w].txs) :
                   runs'[i].wallets[w].txs[k].id \in DOMAIN apiValuesBySubscriptionId'
  /\ (entry = "rrp.handler" /\ pc # "rrp.apiCalls") =>
       \A l \in 1..Len(rrp.loops) :
         IF AtJobWithoutApiValue(l)
         THEN /\ rrp'.loops[l].txs = rrp.loops[l].txs
              /\ rrp'.loops[l].nextNonce = rrp.loops[l].nextNonce
              /\ rrp'.loops[l].status \in {"running", "thrown"}
         ELSE TRUE

\* C17: what has no API value after the API phase goes no further.  PSP: the
\* subscriptions a provider's closure checks conditions for, those it
\* assigns nonces to and those it submits all have an entry in
\* apiValuesBySubscriptionId.  RRP: a step of a keeperSponsor closure that
\* stands at a job without an API value sends nothing and takes no nonce.
C17_NoValueNoSubmission == [][NoApiValueStep]_vars

\* A keeperSponsor closure has gone past a job whose API call gave no value
\* without a transaction, and has attempted its next job.
C17_Witness ==
  /\ entry = "rrp.handler"
  /\ \E l \in 1..Len(rrp.loops) :
       /\ Len(rrp.loops[l].jobs) = 2
       /\ BeaconIdOf(rrp.jobs[rrp.loops[l].jobs[1]]) \in DOMAIN rrp.apiValues
       /\ rrp.apiValues[BeaconIdOf(rrp.jobs[rrp.loops[l].jobs[1]])] = << >>
       /\ Len(rrp.loops[l].txs) = 1
       /\ rrp.loops[l].txs[1].job = rrp.loops[l].jobs[2]

\* The wallets of provider closure i that are of a sponsor.
WalletsOfSponsor(i, sponsor) ==
  { w \in 1..Len(runs[i].wallets) : runs[i].wallets[w].sponsor = sponsor }

\* C18: a sponsor whose transaction count could not be fetched on a provider
\* gets no wallet there, so no nonce and no transaction; every other sponsor
\* of the provider gets its wallet with every subscription of its that
\* passed, numbered from its fetched count.  psp.ts: a sponsor closure
\* whose fetch failed ends without a transaction, and the transactions of
\* any other closure start at its own fetched count.
C18_FailedCountDropsSponsorOnly ==
  /\ \A i \in 1..Len(runs) :
       runs[i].pc = "processSponsorWallets" =>
         \A sponsor \in DOMAIN runs[i].transactionCounts :
           LET fetched == runs[i].transactionCounts[sponsor]
               passed == SelectSeq(ValidSubscriptionsOf(i), LAMBDA s : s.sponsor = sponsor)
           IN  IF fetched = << >>
               THEN WalletsOfSponsor(i, sponsor) = {}
               ELSE /\ Cardinality(WalletsOfSponsor(i, sponsor)) = 1
                    /\ \A w \in WalletsOfSponsor(i, sponsor) :
                         LET wallet == runs[i].wallets[w]
                         IN  /\ Len(wallet.subscriptions) = Len(passed)
                             /\ \A k \in 1..Len(passed) :
                                  /\ wallet.subscriptions[k].entry = passed[k].entry
                                  /\ wallet.subscriptions[k].nonce = fetched[1] + (k - 1)
  /\ entry = "psp.beaconUpdate" =>
       \A l \in 1..Len(beaconUpdate.loops) :
         LET loop == beaconUpdate.loops[l]
         IN  IF loop.transactionCount = << >>
             THEN /\ loop.txs = << >>
                  /\ loop.idx = 0
                  /\ loop.status \in {"transactionCount", "done"}
             ELSE loop.txs # << >> =>
                    loop.txs[1].currentNonce = loop.transactionCount[1]

\* On one provider the transaction count of a sponsor could not be fetched
\* and the wallet of another sponsor has sent its transaction.
C18_Witness ==
  \E i \in 1..Len(runs) :
    /\ runs[i].pc = "processSponsorWallets"
    /\ \E sponsor \in DOMAIN runs[i].transactionCounts :
         runs[i].transactionCounts[sponsor] = << >>
    /\ Len(runs[i].wallets) = 1
    /\ Len(runs[i].wallets[1].txs) = 1

\* A closure that was awaiting its submission is, one step later, at the
\* next position of its list, whether the submission succeeded or failed.
GoesOnAfterSettling(before, after) ==
  (before.status = "submitting" /\ after.status # "submitting") =>
    /\ after.status = "running"
    /\ after.idx = before.idx + 1
    /\ after.txs[Len(after.txs)].settled # << >>

\* One step of a sponsor's closure, seen from its failed submissions.
FailedSubmissionStep ==
  /\ entry = "psp.beaconUpdate" =>
       \A l \in 1..Len(beaconUpdate.loops) :
         LET before == beaconUpdate.loops[l]
             after == beaconUpdate'.loops[l]
         IN  /\ GoesOnAfterSettling(before, after)
             /\ \A k \in 1..Len(after.txs) :
                  after.txs[k].settled = <<FALSE>> =>
                    /\ \A n \in Range(after.txs[k].nonces) : after.nonce > n
                    /\ \A j \in (k + 1)..Len(after.txs) :
                         \A n \in Range(after.txs[k].nonces) :
                           after.txs[j].currentNonce > n
             /\ (after.status = "done" /\ after.txs # << >>) =>
                  after.idx = Len(after.subscriptions)
  /\ (entry = "rrp.handler" /\ pc # "rrp.apiCalls") =>
       \A l \in 1..Len(rrp.loops) :
         LET before == rrp.loops[l]
             after == rrp'.loops[l]
         IN  /\ GoesOnAfterSettling(before, after)
             /\ \A k \in 1..Len(after.txs) :
                  after.txs[k].settled = <<FALSE>> =>
                    /\ after.nextNonce > after.txs[k].nonce
                    /\ \A j \in (k + 1)..Len(after.txs) :
                         after.txs[j].nonce > after.txs[k].nonce
             /\ (after.status = "done" /\ after.txs # << >>) =>
                  after.idx = Len(after.jobs)

\* C19: a submission that fails leaves its closure running at the next
\* subscription or job, as a successful one does; the nonce the closure
\* holds and the nonce of every later submission are above every nonce sent
\* for the failed one; and a closure that has submitted returns only at the
\* end of its list.
C19_FailedSubmissionGoesOn == [][FailedSubmissionStep]_vars

\* The first requestBeaconUpdate of a keeperSponsor failed and its second
\* was sent with the next nonce and succeeded.
C19_Witness ==
  /\ entry = "rrp.handler"
  /\ \E l \in 1..Len(rrp.loops) :
       /\ Len(rrp.loops[l].txs) = 2
       /\ rrp.loops[l].txs[1].settled = <<FALSE>>
       /\ rrp.loops[l].txs[2].settled = <<TRUE>>
       /\ rrp.loops[l].txs[2].nonce = rrp.loops[l].txs[1].nonce + 1

\* C20: no requestBeaconUpdate is sent for a job whose window holds an
\* unmatched RequestedBeaconUpdate that is awaiting fulfillment, whichever
\* of the unmatched requests it is.
C20_AnyAwaitingRequestSkips ==
  entry = "rrp.handler" =>
    \A l \in 1..Len(rrp.loops) :
      \A k \in 1..Len(rrp.loops[l].txs) :
        \A requestId \in Range(PendingRequests(rrp.loops[l].txs[k].events)) :
          requestId \notin rrp.loops[l].txs[k].events.awaiting

\* The deviation of job k's beacon exceeds the job's threshold, in hundredths
\* of a percent: delta * 100 / divisor > deviationPercentage, that is
\* delta * 10000 > (deviationPercentage * 100) * divisor.  For a positive
\* divisor below 10^16 this is the comparison of the claim: the two sides
\* of the scaled integer comparison differ by at least 10^16 / divisor
\* whenever the unscaled ones differ.
ExceedsThreshold(k) ==
  LET job == rrp.jobs[k]
      beaconValue == rrp.beacons[BeaconIdOf(job)]
      apiValue == rrp.apiValues[BeaconIdOf(job)][1]
      divisor == IF beaconValue = 0 THEN 1 ELSE beaconValue
  IN  Abs(beaconValue - apiValue) * 10000
        > NumberTimes100(job.deviationPercentage)[1].value * divisor

\* C21: every requestBeaconUpdate of the RRP handler is for a job whose
\* deviation is strictly above its deviationPercentage; a job whose
\* deviation equals it has no transaction.
C21_UpdateOnlyAboveThreshold ==
  entry = "rrp.handler" =>
    \A l \in 1..Len(rrp.loops) :
      \A k \in 1..Len(rrp.loops[l].txs) : ExceedsThreshold(rrp.loops[l].txs[k].job)

\* A keeperSponsor closure is done with two jobs: the first, whose beacon is
\* at 1000 against an API value of 1100 and a threshold of 10%, has no
\* transaction, the second, whose beacon is at 0, has one.
C21_Witness ==
  /\ entry = "rrp.handler"
  /\ \E l \in 1..Len(rrp.loops) :
       LET loop == rrp.loops[l]
       IN  /\ loop.status = "done"
           /\ Len(loop.jobs) = 2
           /\ rrp.jobs[loop.jobs[1]].deviationPercentage = "10"
           /\ ForCurrentChain(rrp.jobs[loop.jobs[1]], RrpChainId)
           /\ rrp.beacons[BeaconIdOf(rrp.jobs[loop.jobs[1]])] = 1000
           /\ BeaconIdOf(rrp.jobs[loop.jobs[1]]) \in DOMAIN rrp.apiValues
           /\ rrp.apiValues[BeaconIdOf(rrp.jobs[loop.jobs[1]])] = <<1100>>
           /\ Len(loop.txs) = 1
           /\ loop.txs[1].job = loop.jobs[2]
           /\ rrp.beacons[BeaconIdOf(rrp.jobs[loop.jobs[2]])] = 0


\* The step of the map callback for keeper entry chain: an entry without id
\* or with an id of no node chain throws with no provider contacted;
\* otherwise the chain appended is the node chain of that id with the
\* entry's properties written over it, contracts one by one, and the merged
\* chains of other ids are as they were.
MergeConfigsStep ==
  LET chain == beaconUpdate.airkeeperChains[Len(beaconUpdate.chains) + 1]
      known == /\ chain.id # << >>
               /\ \E j \in 1..Len(beaconUpdate.airnodeChains) :
                    beaconUpdate.airnodeChains[j].id = chain.id[1]
      configChain ==
        beaconUpdate.airnodeChains[
          CHOOSE j \in 1..Len(beaconUpdate.airnodeChains) :
            /\ beaconUpdate.airnodeChains[j].id = chain.id[1]
            /\ \A i \in 1..(j - 1) : beaconUpdate.airnodeChains[i].id # chain.id[1]]
      merged == MergedChains'[Len(beaconUpdate.chains) + 1]
  IN  IF ~known
      THEN /\ pc' = "thrown"
           /\ beaconUpdate'.error # << >>
           /\ beaconUpdate'.contacted = << >>
      ELSE /\ pc' = "config.chains"
           /\ Len(beaconUpdate'.chains) = Len(beaconUpdate.chains) + 1
           /\ merged.id = chain.id[1]
           /\ merged.type = IF chain.type # << >> THEN chain.type[1] ELSE configChain.type
           /\ DOMAIN merged.contracts =
                DOMAIN configChain.contracts \cup DOMAIN chain.contracts
           /\ \A name \in DOMAIN chain.contracts :
                merged.contracts[name] = chain.contracts[name]
           /\ \A name \in DOMAIN configChain.contracts \ DOMAIN chain.contracts :
                merged.contracts[name] = configChain.contracts[name]
           /\ \A i \in 1..Len(beaconUpdate.chains) :
                MergedChains[i].id # chain.id[1] => MergedChains'[i] = MergedChains[i]

\* C22: while psp.ts merges the configs, a keeper chain entry without id or
\* with an id of no node chain makes beaconUpdate throw before any provider
\* is contacted, and any other entry yields the node chain deep-merged with
\* the entry.
C22_KeeperChainMergedOrFatal ==
  [][(/\ entry = "psp.config"
      /\ pc = "config.chains"
      /\ Len(beaconUpdate.chains) < Len(beaconUpdate.airkeeperChains))
     => MergeConfigsStep]_vars

\* The first keeper entry was merged into its node chain, which now has the
\* contracts of both, and the second, of an id in no node chain, made the
\* cycle throw with no provider contacted.
C22_Witness ==
  /\ entry = "psp.config"
  /\ pc = "thrown"
  /\ beaconUpdate.error = <<"Chain id not found in node config.json">>
  /\ Len(beaconUpdate.chains) = 1
  /\ MergedChains[1].contracts =
       [AirnodeRrp |-> "0xAirnodeRrp", DapiServer |-> "0xDapiServer"]
  /\ beaconUpdate.contacted = << >>

\* C23: beaconUpdate completes with status 200 only if the merged config has
\* a chain of type evm; with none it throws 'One or more evm compatible
\* chain(s) must be defined in the provided config'.
C23_NoEvmChainAborts ==
  (entry = "psp.config" /\ pc = "returned") => EvmChains # << >>

\* The address rrp.ts has to derive: from airnodeXpub at 0/0 when the keeper
\* config gives one, from the mnemonic at the default path otherwise.
ExpectedAirnodeAddress ==
  IF rrp.airnodeXpub # << >>
  THEN "address(" \o rrp.airnodeXpub[1].seed \o ","
         \o rrp.airnodeXpub[1].path \o "/0/0)"
  ELSE "address(" \o rrp.mnemonic \o ",m/44'/60'/0'/0/0)"

\* C24: when the keeper config declares an airnodeAddress other than the
\* derived one, the RRP handler throws and makes no API call and no RPC call.
C24_AddressMismatchThrowsFirst ==
  (/\ entry = "rrp.config"
   /\ rrp.airnodeAddress # << >>
   /\ rrp.airnodeAddress[1] # ExpectedAirnodeAddress)
    => /\ pc \in {"config.airnodeAddress", "thrown"}
       /\ rrp.calls = << >>

\* The keeper config declares the address of the node's mnemonic and the
\* airnodeXpub of another mnemonic: the handler has thrown without a call.
C24_Witness ==
  /\ entry = "rrp.config"
  /\ pc = "thrown"
  /\ rrp.mnemonic = "mnemonicA"
  /\ rrp.airnodeXpub = <<[seed |-> "mnemonicB", path |-> "m/44'/60'/0'"]>>
  /\ rrp.airnodeAddress = <<"address(mnemonicA,m/44'/60'/0'/0/0)">>
  /\ rrp.calls = << >>


\* C25: a template's call whose first attempt fails and whose second attempt
\* is answered with a value resolves to that value, as a call answered at
\* once does.
C25_RetriedCallGivesValue ==
  (entry = "psp.handler" /\ pc = "executeApiCalls") =>
    \A g \in 1..Len(apiCalls) :
      apiCalls[g].answers = <<"error", "value">> =>
        apiCalls[g].response =
          <<SuccessResponse([templateId |-> groupedSubscriptions[g].template.id,
                             apiValue |-> <<AdapterValue(groupedSubscriptions[g].template)>>])>>


\* C26: in psp.ts a condition call that fails after its retries drops only
\* its subscription: the sponsor's closure goes on with its remaining
\* subscriptions and beaconUpdate still returns status 200, so no closure
\* and no cycle ends with a throw.
C26_FailedConditionCallIsolated ==
  entry = "psp.beaconUpdate" =>
    /\ pc # "thrown"
    /\ \A l \in 1..Len(beaconUpdate.loops) : beaconUpdate.loops[l].status # "thrown"


\* C27: in psp.ts every submission consumes exactly one nonce even when it
\* is retried: all its attempts are sent with the nonce the error log
\* reports, and the next submission of the sponsor wallet takes that nonce
\* plus one.
C27_OneNoncePerSubmission ==
  entry = "psp.beaconUpdate" =>
    \A l \in 1..Len(beaconUpdate.loops) :
      LET txs == beaconUpdate.loops[l].txs
      IN  \A k \in 1..Len(txs) :
            /\ \A a \in 1..Len(txs[k].nonces) : txs[k].nonces[a] = txs[k].currentNonce
            /\ k > 1 => txs[k].currentNonce = txs[k - 1].currentNonce + 1


\* C28: in rrp.ts a job whose API call failed after its retries, so that its
\* beaconId has no entry in logsAndApiValuesByBeaconId, is skipped: the
\* closure of its keeperSponsor goes on with the other jobs and the handler
\* returns status 200, so no closure and no cycle ends with a throw.
C28_FailedApiCallSkipsJob ==
  entry = "rrp.handler" =>
    /\ pc # "thrown"
    /\ \A l \in 1..Len(rrp.loops) : rrp.loops[l].status # "thrown"


\* C29: for every group of initializeState the lookup of airnodeAddress
\* among the group's subscriptions finds a subscription, and a call that the
\* HTTP adapter answers with a value resolves to that value.
C29_LookupFindsSubscription ==
  entry = "psp.handler" =>
    \A g \in 1..Len(groupedSubscriptions) :
      /\ FindSubscriptionOfTemplate(groupedSubscriptions[g]) # << >>
      /\ (pc = "executeApiCalls" /\ apiCalls[g].answers = <<"value">>)
         => /\ apiCalls[g].response # << >>
            /\ apiCalls[g].response[1].success


\* One step of the phased handler, seen from the chains: what the closure of
\* a provider state checks conditions for, assigns nonces to and submits is
\* declared in config.subscriptions for the chain of that provider state.
OwnChainStep ==
  PspEntry =>
    \A i \in 1..Len(runs') :
      LET chainId == providerStates'[i].chainId
      IN  /\ \A k \in 1..Len(runs'[i].chainSubscriptions) :
                runs'[i].chainSubscriptions[k].chainId = chainId
          /\ \A w \in 1..Len(runs'[i].wallets) :
               /\ \A k \in 1..Len(runs'[i].wallets[w].subscriptions) :
                    ConfigSubscriptions[runs'[i].wallets[w].subscriptions[k].id].chainId
                      = chainId
               /\ \A k \in 1..Len(runs'[i].wallets[w].txs) :
                    ConfigSubscriptions[runs'[i].wallets[w].txs[k].id].chainId = chainId

\* C30: in the phased PSP handler a subscription is condition-checked,
\* assigned a nonce and submitted only through providers of the chain it
\* declares; no transaction goes to another chain.
C30_OwnChainOnly == [][OwnChainStep]_vars

\* The cycle has returned with API values for a subscription of chain A and
\* for one of chain B: a provider of chain A has submitted the first, and
\* none has a transaction for the second.
C30_Witness ==
  /\ PspEntry
  /\ pc = "returned"
  /\ \E a \in DOMAIN apiValuesBySubscriptionId, b \in DOMAIN apiValuesBySubscriptionId :
       /\ ConfigSubscriptions[a].chainId = ChainA
       /\ ConfigSubscriptions[b].chainId = ChainB
       /\ \E iw \in RunWallets :
            /\ providerStates[iw.i].chainId = ChainA
            /\ Len(WalletAt(iw).txs) = 1
            /\ WalletAt(iw).txs[1].id = a
       /\ \A iw \in RunWallets :
            \A k \in 1..Len(WalletAt(iw).txs) : WalletAt(iw).txs[k].id # b


\* The transactions of the cycle: provider closure, wallet and position.
SubmittedTransactions ==
  UNION { { [i |-> iw.i, w |-> iw.w, k |-> k] : k \in 1..Len(WalletAt(iw).txs) } :
          iw \in RunWallets }

NonceOncePerProviderStep ==
  PspEntry =>
    \A i \in 1..Len(runs') :
      \A v \in 1..Len(runs'[i].wallets), w \in 1..Len(runs'[i].wallets) :
        runs'[i].wallets[v].sponsorWallet = runs'[i].wallets[w].sponsorWallet =>
          \A k \in 1..Len(runs'[i].wallets[v].txs), m \in 1..Len(runs'[i].wallets[w].txs) :
            (v # w \/ k # m) =>
              runs'[i].wallets[v].txs[k].nonce # runs'[i].wallets[w].txs[m].nonce

AssignedPairs(run) ==
  UNION { { [id |-> run.wallets[w].subscriptions[k].id,
             entry |-> run.wallets[w].subscriptions[k].entry,
             nonce |-> run.wallets[w].subscriptions[k].nonce] :
            k \in 1..Len(run.wallets[w].subscriptions) } :
          w \in 1..Len(run.wallets) }

\* The pairs the answers of the condition calls and the fetched transaction
\* counts determine: a subscription whose call answered true and whose
\* sponsor wallet's count was fetched is numbered from the count by the
\* passing subscriptions of its sponsor listed before it.
PairsOfResults(run) ==
  { [id |-> run.chainSubscriptions[p].id, entry |-> p,
     nonce |-> run.transactionCounts[run.chainSubscriptions[p].sponsor][1]
               + Cardinality({ q \in 1..(p - 1) :
                                 /\ run.answers[q]
                                 /\ run.chainSubscriptions[q].sponsor =
                                      run.chainSubscriptions[p].sponsor })] :
    p \in { q \in 1..Len(run.chainSubscriptions) :
              /\ run.answers[q]
              /\ run.chainSubscriptions[q].sponsor \in DOMAIN run.transactionCounts
              /\ run.transactionCounts[run.chainSubscriptions[q].sponsor] # << >> } }

CompletionOrderStep ==
  PspEntry =>
    \A i \in 1..Len(runs') :
      runs'[i].pc \in {"processSponsorWallets", "done"} =>
        AssignedPairs(runs'[i]) = PairsOfResults(runs'[i])

\* C32: the (subscription, nonce) pairs of a provider closure are a function
\* of its chainSubscriptions, of the answers of the condition calls and of the
\* fetched transaction counts: the order in which the concurrent calls
\* complete, drawn freely at each Promise.all, does not change them.
C32_NoncesIndependentOfCompletionOrder == [][CompletionOrderStep]_vars

\* A closure whose first condition call answered false and whose second
\* answered true has numbered the second subscription from a fetched count
\* of 5.
C32_Witness ==
  /\ PspEntry
  /\ \E i \in 1..Len(runs) :
       /\ runs[i].pc \in {"processSponsorWallets", "done"}
       /\ Len(runs[i].chainSubscriptions) = 2
       /\ ~runs[i].answers[1]
       /\ runs[i].answers[2]
       /\ \E pair \in AssignedPairs(runs[i]) : pair.entry = 2 /\ pair.nonce = 5


\* C33: in the handler of initialize-provider.test.ts 153-538 every element
\* of state.providerStates holds the data of an initializeProvider call that
\* succeeded (its currentBlock and its gasTarget), so that no closure of
\* submitTransactions runs on a provider whose initialization failed.
C33_ProviderStatesInitialized ==
  entry = "psp.providerStates" =>
    \A i \in 1..Len(providerStates) :
      {"currentBlock", "gasTarget"} \subseteq DOMAIN providerStates[i]


\* The attempts to send the loop has made so far.
RECURSIVE SendAttemptsOf(_)
SendAttemptsOf(txs) ==
  IF txs = << >> THEN 0 ELSE Len(Head(txs).nonces) + SendAttemptsOf(Tail(txs))

SkipStep ==
  (entry = "psp.beaconUpdate" /\ pc \in {"beaconUpdate.sponsors", "thrown"}) =>
    \A l \in 1..Len(beaconUpdate.loops) :
      LET before == beaconUpdate.loops[l]
          after == beaconUpdate'.loops[l]
      IN  /\ (/\ before.status = "running"
               /\ after.status = "running"
               /\ after.idx = before.idx + 1) =>
                (after.nonce = before.nonce /\ after.txs = before.txs)
          /\ (before.status # "transactionCount" /\ after.nonce # before.nonce) =>
                /\ after.status = "submitting"
                /\ SendAttemptsOf(after.txs) = SendAttemptsOf(before.txs) + 1

\* C34: in beaconUpdate of psp.ts a continue of the sponsor loop that comes
\* before the submission (template not found, API call failed, API value
\* missing, conditions not decoded, conditions not met, no gas target) leaves
\* the sponsor's nonce as it was, and the nonce changes only when an attempt
\* to send fulfillPspBeaconUpdate is made.
C34_SkipLeavesNonce == [][SkipStep]_vars

\* A sponsor loop has skipped its first subscription and has sent its
\* second one with the transaction count it fetched.
C34_Witness ==
  /\ entry = "psp.beaconUpdate"
  /\ \E l \in 1..Len(beaconUpdate.loops) :
       LET loop == beaconUpdate.loops[l]
       IN  /\ loop.transactionCount # << >>
           /\ Len(loop.txs) = 1
           /\ loop.txs[1].position = 2
           /\ loop.txs[1].currentNonce = loop.transactionCount[1]
           /\ loop.transactionCount[1] > 0


\* The deviationPercentage values of DeviationJobs that are not a number, not
\* above 0, above 100 or of more than two decimal places.
RejectedPercentages == {"abc", "0", "-1", "100.01", "0.001"}

\* The job at position k of closure l has reached the verification of its
\* deviationPercentage: it is for the current chain and its API value is
\* cached.
ReachesVerification(l, k) ==
  LET job == rrp.jobs[rrp.loops[l].jobs[k]]
  IN  /\ ForCurrentChain(job, RrpChainId)
      /\ BeaconIdOf(job) \in DOMAIN rrp.apiValues
      /\ rrp.apiValues[BeaconIdOf(job)] # << >>

DeviationStep ==
  (entry = "rrp.handler" /\ pc \in {"rrp.loops", "thrown"}) =>
    \A l \in 1..Len(rrp.loops) :
      LET before == rrp.loops[l]
          after == rrp'.loops[l]
      IN  (/\ before.status = "running"
           /\ before.idx < Len(before.jobs)
           /\ ReachesVerification(l, before.idx + 1)
           /\ CurrentJob(l).deviationPercentage \in RejectedPercentages
           /\ after # before) =>
            after = [before EXCEPT !.idx = @ + 1]

\* C35: in the handler of rrp.ts a job that reaches the verification of its
\* deviationPercentage with a value that is not a number, is not above 0, is
\* above 100 or has more than two decimal places is skipped: the closure
\* only moves on to the next job, it sends no transaction and its next nonce
\* stays as it was, and it keeps running for the later jobs.
C35_InvalidDeviationSkipped == [][DeviationStep]_vars

\* A closure has skipped a first job of deviationPercentage 0.001 whose API
\* value was cached and has sent the transaction of its second job with the
\* transaction count it fetched.
C35_Witness ==
  /\ entry = "rrp.handler"
  /\ \E l \in 1..Len(rrp.loops) :
       LET loop == rrp.loops[l]
       IN  /\ Len(loop.jobs) = 2
           /\ rrp.jobs[loop.jobs[1]].deviationPercentage = "0.001"
           /\ ReachesVerification(l, 1)
           /\ Len(loop.txs) = 1
           /\ loop.txs[1].job = loop.jobs[2]
           /\ loop.transactionCount # << >>
           /\ loop.txs[1].nonce = loop.transactionCount[1]


\* C36: in the handler of rrp.ts each of the two event queries scans from
\* max(0, currentBlock - blockHistoryLimit) to currentBlock, currentBlock
\* being the block number fetched at 3.1 and blockHistoryLimit the chain's
\* or, without one, 300.
C36_EventRangeFromCurrentBlock ==
  entry = "rrp.events" =>
    \A q \in 1..Len(rrp.queries) :
      LET limit == BlockHistoryLimitOf(rrp.chain)
          currentBlock == rrp.currentBlock[1]
      IN  /\ rrp.queries[q].toBlock = currentBlock
          /\ rrp.queries[q].fromBlock =
               IF currentBlock - limit < 0 THEN 0 ELSE currentBlock - limit


\* C37: in a fulfillment of psp.ts the signed message holds the
\* subscription's id, the timestamp passed to fulfillPspBeaconUpdate and the
\* address of the wallet that sends the transaction; the message is signed
\* by the airnode wallet and the sending wallet is the sponsor wallet derived
\* for the sponsor of the subscription.
C37_SignedByAirnodeSentBySponsorWallet ==
  entry = "psp.beaconUpdate" =>
    \A l \in 1..Len(beaconUpdate.loops) :
      LET loop == beaconUpdate.loops[l]
      IN  \A k \in 1..Len(loop.txs) :
            LET tx == loop.txs[k]
                subscription == loop.subscriptions[tx.position]
            IN  /\ tx.signature.signer = AirnodeWalletAddress
                /\ tx.signature.signer # tx.sender
                /\ tx.sender = SponsorWalletAddress(subscription.sponsor, "3")
                /\ tx.signature.sponsorWallet = tx.sender
                /\ tx.signature.subscriptionId = subscription.id
                /\ tx.args.subscriptionId = subscription.id
                /\ tx.args.sponsor = subscription.sponsor
                /\ tx.signature.timestamp = tx.args.timestamp

\* Two sponsor loops have each sent a fulfillment, one of them twice.
C37_Witness ==
  /\ entry = "psp.beaconUpdate"
  /\ Len(beaconUpdate.loops) = 2
  /\ Len(beaconUpdate.loops[1].txs) = 1
  /\ Len(beaconUpdate.loops[2].txs) = 1
  /\ Len(beaconUpdate.loops[1].txs[1].nonces) = 2
  /\ beaconUpdate.loops[1].txs[1].sender # beaconUpdate.loops[2].txs[1].sender


\* ------------------------------------------------------------------- C38

\* The (subscription, nonce) pairs a closure has attempted a transaction for.
AttemptedPairs(run) ==
  UNION { { [id |-> run.wallets[w].txs[k].id,
             entry |-> run.wallets[w].txs[k].entry,
             nonce |-> run.wallets[w].txs[k].nonce] :
            k \in 1..Len(run.wallets[w].txs) } :
          w \in 1..Len(run.wallets) }

\* The sponsors whose wallet's transaction count the provider returned.
FetchedSponsors(run) ==
  { sponsor \in DOMAIN run.transactionCounts : run.transactionCounts[sponsor] # << >> }

\* The closure of the second invocation and the one of the first are of the
\* same provider and got the same responses: the same API values, the same
\* answers of the condition calls, the same transaction counts answered.
SameResponses(first, j, i) ==
  /\ first.apiValuesBySubscriptionId = apiValuesBySubscriptionId
  /\ first.providerStates[j].providerName = providerStates[i].providerName
  /\ first.providerStates[j].chainId = providerStates[i].chainId
  /\ first.runs[j].answers = runs[i].answers
  /\ FetchedSponsors(first.runs[j]) = FetchedSponsors(runs[i])

RECURSIVE SumUpTo(_, _)
SumUpTo(f, n) == IF n = 0 THEN 0 ELSE f[n] + SumUpTo(f, n - 1)

\* The calls the closure of a provider state has still to await, at most:
\* the condition checks, the transaction counts, and one submission per
\* subscription of its wallets.
CallsLeftOfRun(run) ==
  IF run.pc = "checkConditions" THEN 2 + Len(run.chainSubscriptions)
  ELSE IF run.pc = "transactionCounts" THEN 1 + Len(run.chainSubscriptions)
  ELSE SumUpTo([w \in 1..Len(run.wallets) |->
                  Len(run.wallets[w].subscriptions) - Len(run.wallets[w].txs)],
               Len(run.wallets))

\* The most calls STEP 4, STEP 3 and STEP 2 of updateBeacon await for the
\* config: they are bounded by the providers and the triggers of the config.
SubmitTransactionsCalls == 1 + Len(EvmProviders(config)) * (2 + Len(protoPsp))
InitializeProvidersCalls == SubmitTransactionsCalls + 1 + Len(EvmProviders(config))
ExecuteApiCallsCalls == InitializeProvidersCalls + 1 + Len(protoPsp) * ApiMaxAttempts

\* The steps the handler has at most left before it returns.
StepsLeft ==
  IF pc = "initializeState" THEN ExecuteApiCallsCalls + 1
  ELSE IF pc = "executeApiCalls"
  THEN InitializeProvidersCalls + 1
       + SumUpTo([g \in 1..Len(apiCalls) |->
                    IF apiCalls[g].response # << >> THEN 0
                    ELSE ApiMaxAttempts - apiCalls[g].attempts],
                 Len(apiCalls))
  ELSE IF pc = "initializeProviders"
  THEN SubmitTransactionsCalls + 1
       + Cardinality({ p \in 1..Len(providerInits) : ~providerInits[p].settled })
  ELSE IF pc = "submitTransactions"
  THEN 1 + SumUpTo([i \in 1..Len(runs) |-> CallsLeftOfRun(runs[i])], Len(runs))
  ELSE 0

\* The steps of updateBeacon, in order.
PhaseOf(at) ==
  IF at = "initializeState" THEN 1
  ELSE IF at = "executeApiCalls" THEN 2
  ELSE IF at = "initializeProviders" THEN 3
  ELSE IF at = "submitTransactions" THEN 4
  ELSE 5

TerminationStep ==
  PspEntry =>
    /\ StepsLeft' < StepsLeft
    /\ StepsLeft' >= 0
    /\ PhaseOf(pc') \in {PhaseOf(pc), PhaseOf(pc) + 1}
    /\ pc' # "thrown"
    /\ StepsLeft' = 0 <=> pc' = "returned"
    /\ pc' # "returned" => HandlerCanStep'

\* C39: the phased cycle terminates.  Every call the handler awaits settles
\* (returns, fails or times out) in a step; each step takes the handler
\* strictly closer to its end by a count that the triggers and providers of
\* the config bound, the four steps of updateBeacon are gone through in order
\* without one being skipped, the count is zero exactly when the handler has
\* returned, and before that a settled call always lets it go on.
C39_CycleTerminates == [][TerminationStep]_vars

\* The handler has returned from the four steps with two provider closures,
\* after the API call of a group failed and a submission failed.
C39_Witness ==
  /\ PspEntry
  /\ pc = "returned"
  /\ StepsLeft = 0
  /\ Len(runs) = 2
  /\ groupedSubscriptions # << >>
  /\ \E g \in 1..Len(groupedSubscriptions) :
       \A k \in 1..Len(groupedSubscriptions[g].subscriptions) :
         groupedSubscriptions[g].subscriptions[k].id \notin DOMAIN apiValuesBySubscriptionId
  /\ \E i \in 1..2 : \E w \in 1..Len(runs[i].wallets) :
       \E k \in 1..Len(runs[i].wallets[w].txs) : ~runs[i].wallets[w].txs[k].success


\* ------------------------------------------------------------------- C40

====
